---- MODULE Spec2Model ----
(***************************************************************************)
(* A model of the LCD renderer of streamdeck-nowplaying                    *)
(* (src/src/renderer.js): the text layout (buildTextSvg, truncate,         *)
(* escapeXml), the progress bar (createProgressBar) and the three public   *)
(* entry points render, createBlank and createFallback, whose calls into   *)
(* the raster library (sharp) may each reject; and of the plugin that      *)
(* drives it (src/src/plugin.js): the media-session subscription, the      *)
(* media events, the update passes and the handlers of the keypad and LCD  *)
(* actions, each split at its awaits.                                      *)
(*                                                                         *)
(* JavaScript strings are sequences of one-character strings (UTF-16 code  *)
(* units); JavaScript values are records tagged by their type in field k.  *)
(* Numbers are integers; the one quotient the code computes                *)
(* (currentTime / duration * barWidth) is rounded exactly, as Math.round   *)
(* does on the real value.                                                 *)
(***************************************************************************)
EXTENDS Integers, Sequences, FiniteSets, TLC

VARIABLES
  op,              \* the entry point being executed, or "idle"
  pc,              \* the position inside that entry point (its awaits and catches)
  trackInfo,       \* render's snapshot argument (line 72)
  position,        \* the position argument: 'left', 'right' or another string
  barArgs,         \* createProgressBar's arguments (line 39)
  composite,       \* the layer list being built (lines 75, 227)
  svgText,         \* buildTextSvg's result (line 107)
  textLocals,      \* buildTextSvg's title, artist and their truncations (172-194)
  progressBuffer,  \* createProgressBar's result (line 120)
  fullCanvas,      \* the composited 400x100 canvas (lines 135, 273)
  error,           \* what the outer catch caught (lines 161, 298), "none" if nothing
  artStatus,       \* what the artwork block of render did (lines 78-100)
  result,          \* what the entry point gave its caller
  renderer,        \* the fields of the one NowPlayingRenderer instance (lines 11-18)
  callsReturned,   \* how many entry-point calls have returned so far (history)
  nowPlayingInstance, \* plugin.js:192: 0 for null, else the number of the instance
  instances,       \* the state of every NowPlaying instance constructed so far
  currentTrackInfo,   \* plugin.js:193: null or the latest media event
  keypadContexts,  \* plugin.js:194: the visible keypad actions, in insertion order
  lcdContexts,     \* plugin.js:195: the visible LCD actions, in insertion order
  actionPosition,  \* action._position of every LCD action (plugin.js:422, 452)
  tasks,           \* the handlers and update passes suspended at an await
  shown,           \* for every action, the snapshot its latest content was made from
  raisedFrom,      \* the functions an exception has left so far (history)
  eventsReceived,  \* how many media events have arrived (history)
  keyPresses,      \* how many key presses the hardware has reported (history)
  playPauseIssued, \* how many playPause commands went to the media session
  seekIssued,      \* the seek commands that went to the media session, in order
  dialRotations    \* how many dial rotations the hardware has reported (history)

\* the state of the entry-point call in execution
callVars == <<op, pc, trackInfo, position, barArgs, composite, svgText, textLocals,
              progressBuffer, fullCanvas, error, artStatus, result>>

\* the plugin's globals, its suspended handlers and what it has sent
pluginVars == <<nowPlayingInstance, instances, currentTrackInfo, keypadContexts,
                lcdContexts, actionPosition, tasks, shown, raisedFrom,
                eventsReceived, keyPresses, playPauseIssued, seekIssued, dialRotations>>

\* what no step of an entry point writes
outside == <<renderer, pluginVars>>

vars == <<callVars, outside, callsReturned>>

----------------------------------------------------------------------------
(* Bounds of the model *)

\* short strings are enumerated exhaustively up to this length
MaxShortLen == 2
\* long strings run from this many characters below the title budget
\* to this many above the artist budget
MaxOver == 2
\* artist lists have at most this many elements
MaxArtists == 2
\* durations range over 0..MaxDuration seconds
MaxDuration == 5
\* positions range over -MaxOutside..MaxDuration+MaxOutside seconds
MaxOutside == 2
\* small bar widths 1..MaxSmallWidth are tried besides render's own width
MaxSmallWidth == 3
\* returned calls are counted up to this number
MaxCalls == 2
\* at most this many handlers or update passes are suspended at once
MaxTasks == 2
\* at most this many media events arrive
MaxEvents == 2
\* at most this many NowPlaying instances are constructed
MaxInstances == 3
\* at most this many key presses are reported
MaxPresses == 1
\* at most this many dial rotations are reported
MaxRotations == 1

----------------------------------------------------------------------------
(* JavaScript values *)

Undefined == [k |-> "undefined"]
Null == [k |-> "null"]
NaN == [k |-> "NaN"]
Infinity == [k |-> "Infinity"]
NegInfinity == [k |-> "-Infinity"]
Str(s) == [k |-> "string", s |-> s]
Num(n) == [k |-> "number", n |-> n]
Arr(a) == [k |-> "array", a |-> a]

\* ToBoolean: what `!v`, `v || d` and `if (v)` test
Truthy(v) ==
  CASE v.k = "undefined" -> FALSE
    [] v.k = "null" -> FALSE
    [] v.k = "NaN" -> FALSE
    [] v.k = "string" -> v.s # <<>>
    [] v.k = "number" -> v.n # 0
    [] OTHER -> TRUE

\* ToNumber, as the operators / and * apply it to their operands
ToNumber(v) ==
  CASE v.k = "undefined" -> NaN
    [] v.k = "null" -> Num(0)
    [] OTHER -> v

----------------------------------------------------------------------------
(* String literals of renderer.js *)

UnknownTrack == <<"U","n","k","n","o","w","n"," ","T","r","a","c","k">>
UnknownArtist == <<"U","n","k","n","o","w","n"," ","A","r","t","i","s","t">>
Ellipsis == <<".", ".", ".">>
Separator == <<",", " ">>
EntAmp == <<"&","a","m","p",";">>
EntLt == <<"&","l","t",";">>
EntGt == <<"&","g","t",";">>
EntQuot == <<"&","q","u","o","t",";">>
EntApos == <<"&","#","3","9",";">>

TitleBudget == 28
ArtistBudget == 32

----------------------------------------------------------------------------
(* Text layout: buildTextSvg, truncate, escapeXml *)

RECURSIVE Join(_, _)
\* Array.prototype.join
Join(list, sep) ==
  IF list = <<>> THEN <<>>
  ELSE IF Len(list) = 1 THEN list[1]
  ELSE list[1] \o sep \o Join(Tail(list), sep)

RECURSIVE ReplaceAll(_, _, _)
\* String.prototype.replace(/c/g, rep): every occurrence of character c, left to right
ReplaceAll(str, c, rep) ==
  IF str = <<>> THEN <<>>
  ELSE (IF Head(str) = c THEN rep ELSE <<Head(str)>>) \o ReplaceAll(Tail(str), c, rep)

\* a slip: the ampersand pass runs last and escapes the entities again
escapeXmlAmpLast(str) ==
  IF str = <<>> THEN <<>>
  ELSE ReplaceAll(ReplaceAll(ReplaceAll(ReplaceAll(ReplaceAll(str,
         "<", EntLt), ">", EntGt), "\"", EntQuot), "'", EntApos), "&", EntAmp)

escapeXml(str) ==
  IF str = <<>> THEN <<>>
  ELSE ReplaceAll(ReplaceAll(ReplaceAll(ReplaceAll(ReplaceAll(str,
         "&", EntAmp), "<", EntLt), ">", EntGt), "\"", EntQuot), "'", EntApos)

\* a slip: keeps maxChars characters and then appends the ellipsis
truncateKeepsBudget(text, maxChars) ==
  IF Len(text) > maxChars THEN SubSeq(text, 1, maxChars) \o Ellipsis ELSE text

truncate(text, maxChars) ==
  IF Len(text) > maxChars THEN SubSeq(text, 1, maxChars - 3) \o Ellipsis ELSE text

\* const title = trackInfo.trackName || 'Unknown Track'
titleOf(info) ==
  IF Truthy(info.trackName) THEN info.trackName.s ELSE UnknownTrack

\* const artist = Array.isArray(..) ? ..join(', ') : (trackInfo.artist || 'Unknown Artist')
artistOf(info) ==
  IF info.artist.k = "array" THEN Join(info.artist.a, Separator)
  ELSE IF Truthy(info.artist) THEN info.artist.s ELSE UnknownArtist

\* the markup buildTextSvg returns: an svg of 280x100 with two text elements
buildTextSvg(info, maxWidth) ==
  [width |-> 280, height |-> 100,
   title |-> [x |-> 0, y |-> 27, class |-> "title",
              text |-> escapeXml(truncate(titleOf(info), TitleBudget))],
   artist |-> [x |-> 0, y |-> 55, class |-> "artist",
               text |-> escapeXml(truncate(artistOf(info), ArtistBudget))]]

\* the locals of one buildTextSvg call
buildTextLocals(info) ==
  [title |-> titleOf(info), artist |-> artistOf(info),
   titleCut |-> truncate(titleOf(info), TitleBudget),
   artistCut |-> truncate(artistOf(info), ArtistBudget)]

----------------------------------------------------------------------------
(* Layout constants: the constructor's fields and the literals of render *)

\* the fields the constructor sets
constructed ==
  [fullWidth |-> 400, dialWidth |-> 200, lcdHeight |-> 100, artworkSize |-> 100,
   padding |-> 8, textColor |-> "#ffffff", backgroundColor |-> "#000000",
   accentColor |-> "#007bff"]

\* this.fullWidth, this.dialWidth, this.lcdHeight, this.artworkSize, this.padding
fullWidth == renderer.fullWidth
dialWidth == renderer.dialWidth
lcdHeight == renderer.lcdHeight
artworkSize == renderer.artworkSize
padding == renderer.padding
barHeight == 5
radius == 1
\* const barY = 75
renderBarY == 75
\* const textX = 100 + this.padding
textX == 100 + padding
\* const textAreaWidth = this.fullWidth - textX - this.padding
textAreaWidth == fullWidth - textX - padding
\* const barWidth = textAreaWidth - this.padding
renderBarWidth == textAreaWidth - padding

----------------------------------------------------------------------------
(* Progress bar: createProgressBar *)

\* Math.round((currentTime / duration) * barWidth) on JavaScript numbers:
\* NaN when an operand is NaN or the quotient is 0/0, an infinity when a
\* nonzero time is divided by 0, and otherwise the real quotient times the
\* width, rounded half up (Math.round rounds x to floor(x + 1/2))
roundedProgress(duration, currentTime, barWidth) ==
  LET d == ToNumber(duration)
      p == ToNumber(currentTime)
  IN  IF d.k # "number" \/ p.k # "number" THEN NaN
      ELSE IF d.n = 0
        THEN (IF p.n = 0 \/ barWidth = 0 THEN NaN
              ELSE IF p.n > 0 THEN Infinity ELSE NegInfinity)
      ELSE LET num == IF d.n > 0 THEN p.n * barWidth ELSE -(p.n * barWidth)
               den == IF d.n > 0 THEN d.n ELSE -d.n
           IN  Num((2 * num + den) \div (2 * den))

\* a slip: the remaining time is scaled instead of the elapsed time
roundedProgressRemaining(duration, currentTime, barWidth) ==
  roundedProgress(duration,
                  IF ToNumber(duration).k = "number" /\ ToNumber(currentTime).k = "number"
                    THEN Num(ToNumber(duration).n - ToNumber(currentTime).n)
                    ELSE currentTime,
                  barWidth)

\* const progressWidth = Math.round((currentTime / duration) * barWidth)
progressWidth(duration, currentTime, barWidth) ==
  roundedProgress(duration, currentTime, barWidth)

\* progressWidth > 0
positive(w) == w.k = "Infinity" \/ (w.k = "number" /\ w.n > 0)

\* the background rectangle both templates emit
trackRect(barWidth, barX, barY) ==
  [x |-> barX, y |-> barY, width |-> barWidth, height |-> barHeight,
   rx |-> radius, fill |-> "#404040"]

\* the fill rectangle of the second template
fillRect(w, barX, barY) ==
  [x |-> barX, y |-> barY, width |-> w, height |-> barHeight,
   rx |-> radius, fill |-> "#1DB954"]

\* a slip: the test is >= 0, so a fill of width 0 is emitted
progressTemplateZeroFill(duration, currentTime, barWidth, barX, barY) ==
  LET w == progressWidth(duration, currentTime, barWidth)
  IN  [width |-> 400, height |-> 100, markup |-> "track and fill slot",
       shapes |-> IF positive(w) \/ w = Num(0)
                    THEN <<trackRect(barWidth, barX, barY), fillRect(w, barX, barY)>>
                    ELSE <<trackRect(barWidth, barX, barY)>>]

\* the second template: the track and, when progressWidth > 0, the fill
progressTemplate(duration, currentTime, barWidth, barX, barY) ==
  LET w == progressWidth(duration, currentTime, barWidth)
  IN  [width |-> 400, height |-> 100, markup |-> "track and fill slot",
       shapes |-> IF positive(w)
                    THEN <<trackRect(barWidth, barX, barY), fillRect(w, barX, barY)>>
                    ELSE <<trackRect(barWidth, barX, barY)>>]

\* a slip: the guard for a missing duration is left out
createProgressBarNoGuard(duration, currentTime, barWidth, barX, barY) ==
  progressTemplate(duration, currentTime, barWidth, barX, barY)

\* the svg createProgressBar returns: its size, which of the two template
\* literals produced it, and the shapes it holds in document order
createProgressBar(duration, currentTime, barWidth, barX, barY) ==
  IF ~Truthy(duration) \/ duration = Num(0)
    THEN [width |-> 400, height |-> 100, markup |-> "track only",
          shapes |-> <<trackRect(barWidth, barX, barY)>>]
    ELSE progressTemplate(duration, currentTime, barWidth, barX, barY)

----------------------------------------------------------------------------
(* Artwork: extractBase64FromDataUrl and the decode by the raster library.  *)
(* A thumbnail string is a sequence of tokens: the prefix "data:", a media  *)
(* type, the comma, and a base64 payload that is either the encoding of an  *)
(* image ("IMG") or of bytes no decoder accepts ("JUNK").                   *)

\* the index of the first comma at or after position i, or 0
firstComma(s, i) ==
  IF \E j \in i..Len(s) : s[j] = ","
    THEN CHOOSE j \in i..Len(s) : s[j] = "," /\ \A h \in i..(j - 1) : s[h] # ","
    ELSE 0

\* dataUrl.split(',')[1]: the part between the first comma and the second,
\* Undefined when the string holds no comma
splitSecond(s) ==
  LET c1 == firstComma(s, 1)
      c2 == IF c1 = 0 THEN 0 ELSE firstComma(s, c1 + 1)
  IN  IF c1 = 0 THEN Undefined
      ELSE Str(SubSeq(s, c1 + 1, IF c2 = 0 THEN Len(s) ELSE c2 - 1))

\* Buffer.from(x, 'base64'): a TypeError for a value that is no string
bufferFrom(x) ==
  IF x.k = "string" THEN [k |-> "buffer", bytes |-> x.s] ELSE [k |-> "throw"]

extractBase64FromDataUrl(dataUrl) ==
  IF ~Truthy(dataUrl) THEN Null
  ELSE IF dataUrl.k # "string" THEN [k |-> "throw"]
  ELSE IF Head(dataUrl.s) = "data:" THEN bufferFrom(splitSecond(dataUrl.s))
  ELSE bufferFrom(dataUrl)

\* whether the raster library can decode these bytes at all
decodable(bytes) == bytes = <<"IMG">>

----------------------------------------------------------------------------
(* Layers and images *)

\* composite.push({ input: albumArtBuffer, left: 0, top: 0 })
artLayer ==
  [kind |-> "artwork", width |-> artworkSize, height |-> artworkSize,
   left |-> 0, top |-> 0]

\* composite.push({ input: textBuffer, left: textX, top: 0 })
textLayer(svg) ==
  [kind |-> "text", input |-> svg, width |-> svg.width, height |-> svg.height,
   left |-> textX, top |-> 0]

\* composite.push({ input: progressBuffer, left: 0, top: 0 })
barLayer(svg) ==
  [kind |-> "bar", input |-> svg, width |-> svg.width, height |-> svg.height,
   left |-> 0, top |-> 0]

\* createBlank's darkArtSvg layer: the dark square with the pause icon
darkArtLayer ==
  [kind |-> "placeholder", width |-> 100, height |-> 100, left |-> 0, top |-> 0]

\* a slip: the idle track spans the text area, without the right padding
blankTextLayerWide ==
  [kind |-> "idle text", width |-> 400, height |-> 100, left |-> 0, top |-> 0,
   textAt |-> textX, titleY |-> 27, artistY |-> 55,
   track |-> [x |-> textX, y |-> 75, width |-> textAreaWidth, height |-> 5,
              rx |-> 1, fill |-> "#404040"]]

\* createBlank's textSvg layer: the two fixed lines and the empty track
blankTextLayer ==
  [kind |-> "idle text", width |-> 400, height |-> 100, left |-> 0, top |-> 0,
   textAt |-> textX, titleY |-> 27, artistY |-> 55,
   track |-> [x |-> textX, y |-> 75, width |-> renderBarWidth, height |-> 5,
              rx |-> 1, fill |-> "#404040"]]

\* a slip: the right half is taken to start where the artwork ends
cropXAfterArtwork(pos) == IF pos = "left" THEN 0 ELSE artworkSize

\* const cropX = position === 'left' ? 0 : this.dialWidth
cropX(pos) == IF pos = "left" THEN 0 ELSE dialWidth

\* `data:image/png;base64,${buffer.toString('base64')}`
dataUrlOf(image) ==
  [k |-> "returned", scheme |-> "data:image/png;base64,", image |-> image]

\* the canvas sharp({create}).composite(composite) builds
canvasOf(layers) ==
  [width |-> fullWidth, height |-> lcdHeight, background |-> "black",
   layers |-> layers]

\* sharp(fullCanvas).extract({left: cropX, top: 0, width, height}).png()
cropOf(canvas, pos) ==
  [kind |-> "crop", canvas |-> canvas, left |-> cropX(pos), top |-> 0,
   width |-> dialWidth, height |-> lcdHeight]

\* a slip: the fallback shows the track name when the snapshot has one
fallbackImageWithTitle(pos) ==
  [kind |-> "fallback", width |-> 200, height |-> 100,
   message |-> IF trackInfo.k = "object" /\ Truthy(trackInfo.trackName)
                 THEN "track name"
                 ELSE IF pos = "left" THEN "note glyph" ELSE "No Track",
   fontSize |-> IF pos = "left" THEN 40 ELSE 14]

\* createFallback's svg: a glyph on the left, 'No Track' on the right
fallbackImage(pos) ==
  [kind |-> "fallback", width |-> 200, height |-> 100,
   message |-> IF pos = "left" THEN "note glyph" ELSE "No Track",
   fontSize |-> IF pos = "left" THEN 40 ELSE 14]

\* the plain black svg of createBlank's catch block
blackImage == [kind |-> "black", width |-> 200, height |-> 100]

Raised == [k |-> "raised"]
NoResult == [k |-> "none"]
NoSvg == [k |-> "none"]
NoArgs == [k |-> "none"]

----------------------------------------------------------------------------
(* Inputs *)

Alphabet == {"a", "&", "<", ">", "\"", "'", ";"}

\* the string of length n that repeats unit
Cycle(unit, n) == [i \in 1..n |-> unit[((i - 1) % Len(unit)) + 1]]

ShortStrings == UNION {[1..n -> Alphabet] : n \in 0..MaxShortLen}

\* metadata that already reads like markup
EntityLike == {EntAmp, EntLt, EntGt, EntQuot, EntApos}

Units == {<<"a">>, <<"&", "b">>, <<"<", ".", ">">>, <<"\"", "'", ";", "c">>}

LongStrings ==
  {Cycle(u, n) : u \in Units, n \in (TitleBudget - MaxOver)..(ArtistBudget + MaxOver)}

Strings == ShortStrings \cup EntityLike \cup LongStrings

ArtistElems ==
  {<<>>, <<"a">>, <<"&", "<">>, Cycle(<<"a">>, 15), Cycle(<<"b", "'">>, 17)}

ArtistLists == UNION {[1..n -> ArtistElems] : n \in 0..MaxArtists}

TrackNames == {Undefined, Null} \cup {Str(s) : s \in Strings}

ArtistValues ==
  {Undefined, Null} \cup {Str(s) : s \in Strings} \cup {Arr(l) : l \in ArtistLists}

\* a snapshot as the media-session library delivers it
Track(name, artist, thumbnail, duration, time) ==
  [k |-> "object", trackName |-> name, artist |-> artist, thumbnail |-> thumbnail,
   duration |-> duration, position |-> time]

TextInputs ==
  {Track(n, Str(<<"a">>), Null, Undefined, Undefined) : n \in TrackNames}
  \cup {Track(Str(<<"a">>), a, Null, Undefined, Undefined) : a \in ArtistValues}
  \cup {Track(n, a, Null, Undefined, Undefined) :
          n \in {Undefined, Str(<<>>), Str(<<"<">>)},
          a \in {Undefined, Str(<<>>), Arr(<<>>), Arr(<<<<"&">>, <<"a">>>>)}}

Durations == {Undefined, Null} \cup {Num(n) : n \in 0..MaxDuration}

Times ==
  {Undefined, Null, Num(1000 * MaxDuration)}
  \cup {Num(n) : n \in (0 - MaxOutside)..(MaxDuration + MaxOutside)}

BarWidths == (1..MaxSmallWidth) \cup {renderBarWidth}

BarInputs ==
  {[duration |-> d, currentTime |-> t, barWidth |-> w, barX |-> textX, barY |-> renderBarY] :
     d \in Durations, t \in Times, w \in BarWidths}

Thumbnails ==
  {Undefined, Null, Str(<<>>),
   Str(<<"data:", "image/png;base64", ",", "IMG">>),
   Str(<<"data:", "image/png;base64", ",", "JUNK">>),
   Str(<<"data:", "IMG">>),
   Str(<<"IMG">>),
   Str(<<"JUNK">>),
   [k |-> "buffer", bytes |-> <<"IMG">>]}

RenderInputs ==
  {Undefined, Null}
  \cup {Track(n, a, th, d, t) :
          n \in {Undefined, Str(Cycle(<<"&", "b">>, TitleBudget + 1))},
          a \in {Arr(<<>>), Arr(<<<<"a">>, <<"<">>>>)},
          th \in Thumbnails,
          d \in {Undefined, Num(4)},
          t \in {Num(0), Num(2), Num(6)}}

Positions == {"left", "right", "center"}

----------------------------------------------------------------------------
(* State *)

\* the action objects the hardware reports: one key and one dial
Keypads == {"k1"}
Lcds == {"l1"}

\* a free slot: no handler suspended in it
FreeTask == [kind |-> "free"]

\* no renderer call belongs to the task
NoFrame == [k |-> "none"]

\* an action the plugin has sent nothing to
ShowsNothing == 0

\* the plugin after its module body ran (plugin.js:192-196): nothing
\* subscribed, no snapshot, no visible action
Started ==
  /\ nowPlayingInstance = 0
  /\ instances = [i \in 1..MaxInstances |-> "none"]
  /\ currentTrackInfo = Null
  /\ keypadContexts = <<>>
  /\ lcdContexts = <<>>
  /\ actionPosition = [a \in Lcds |-> "unset"]
  /\ tasks = [t \in 1..MaxTasks |-> FreeTask]
  /\ shown = [a \in Keypads \cup Lcds |-> ShowsNothing]
  /\ raisedFrom = {}
  /\ eventsReceived = 0
  /\ keyPresses = 0
  /\ playPauseIssued = 0
  /\ seekIssued = <<>>
  /\ dialRotations = 0

\* no entry point is running
Cleared ==
  /\ Started
  /\ renderer = constructed
  /\ callsReturned = 0
  /\ op = "idle"
  /\ pc = "idle"
  /\ trackInfo = NoArgs
  /\ position = "none"
  /\ barArgs = NoArgs
  /\ composite = <<>>
  /\ svgText = NoSvg
  /\ textLocals = NoSvg
  /\ progressBuffer = NoSvg
  /\ fullCanvas = NoSvg
  /\ error = "none"
  /\ artStatus = "none"
  /\ result = NoResult

Init == Cleared

\* a slip: the layer list lives outside the call and is never emptied
compositeKept == composite

\* let composite = []
newComposite == <<>>

\* what a call finds on entry: an empty layer list and no result yet
Fresh ==
  /\ composite' = newComposite
  /\ svgText' = NoSvg
  /\ textLocals' = NoSvg
  /\ progressBuffer' = NoSvg
  /\ fullCanvas' = NoSvg
  /\ error' = "none"
  /\ artStatus' = "none"
  /\ result' = NoResult
  /\ UNCHANGED <<outside, callsReturned>>

----------------------------------------------------------------------------
(* render(trackInfo, position): one action per stage, split at the awaits *)

\* the caller invokes render; let composite = []
RenderCall ==
  /\ op = "idle"
  /\ \E info \in RenderInputs, pos \in Positions :
       /\ trackInfo' = info
       /\ position' = pos
  /\ op' = "render"
  /\ pc' = "art"
  /\ barArgs' = NoArgs
  /\ Fresh

\* trackInfo.thumbnail on a null or undefined snapshot: a TypeError, caught
\* by the outer try
ArtSnapshotThrows ==
  /\ op = "render" /\ pc = "art"
  /\ trackInfo.k # "object"
  /\ error' = "TypeError"
  /\ pc' = "catch"
  /\ UNCHANGED <<outside, callsReturned>>
  /\ UNCHANGED <<op, trackInfo, position, barArgs, composite, svgText, textLocals,
                 progressBuffer, fullCanvas, artStatus, result>>

\* if (trackInfo.thumbnail) is false: the artwork block is skipped
ArtAbsent ==
  /\ op = "render" /\ pc = "art"
  /\ trackInfo.k = "object"
  /\ ~Truthy(trackInfo.thumbnail)
  /\ artStatus' = "absent"
  /\ pc' = "text"
  /\ UNCHANGED <<outside, callsReturned>>
  /\ UNCHANGED <<op, trackInfo, position, barArgs, composite, svgText, textLocals,
                 progressBuffer, fullCanvas, error, result>>

\* a slip: the artwork block has no try of its own
artFailureToOuterCatch == "catch"

\* where control goes when the artwork block fails: its own catch logs the
\* error and the pipeline goes on
artFailureTarget == "text"

\* extractBase64FromDataUrl throws inside the inner try
ArtExtractThrows ==
  /\ op = "render" /\ pc = "art"
  /\ trackInfo.k = "object"
  /\ Truthy(trackInfo.thumbnail)
  /\ extractBase64FromDataUrl(trackInfo.thumbnail).k = "throw"
  /\ artStatus' = "failed"
  /\ pc' = artFailureTarget
  /\ UNCHANGED <<outside, callsReturned>>
  /\ UNCHANGED <<op, trackInfo, position, barArgs, composite, svgText, textLocals,
                 progressBuffer, fullCanvas, error, result>>

\* await sharp(artBuffer).resize(100, 100, cover).png().toBuffer() rejects:
\* always for bytes that are no image, possibly for any bytes
ArtDecodeFails ==
  /\ op = "render" /\ pc = "art"
  /\ trackInfo.k = "object"
  /\ Truthy(trackInfo.thumbnail)
  /\ extractBase64FromDataUrl(trackInfo.thumbnail).k = "buffer"
  /\ artStatus' = "failed"
  /\ pc' = artFailureTarget
  /\ UNCHANGED <<outside, callsReturned>>
  /\ UNCHANGED <<op, trackInfo, position, barArgs, composite, svgText, textLocals,
                 progressBuffer, fullCanvas, error, result>>

\* the decode resolves: the 100x100 artwork is pushed at left 0, top 0
ArtDecoded ==
  /\ op = "render" /\ pc = "art"
  /\ trackInfo.k = "object"
  /\ Truthy(trackInfo.thumbnail)
  /\ extractBase64FromDataUrl(trackInfo.thumbnail).k = "buffer"
  /\ decodable(extractBase64FromDataUrl(trackInfo.thumbnail).bytes)
  /\ composite' = Append(composite, artLayer)
  /\ artStatus' = "decoded"
  /\ pc' = "text"
  /\ UNCHANGED <<outside, callsReturned>>
  /\ UNCHANGED <<op, trackInfo, position, barArgs, svgText, textLocals,
                 progressBuffer, fullCanvas, error, result>>

\* const svgText = this.buildTextSvg(trackInfo, textAreaWidth); composite.push
TextStage ==
  /\ op = "render" /\ pc = "text"
  /\ svgText' = buildTextSvg(trackInfo, textAreaWidth)
  /\ textLocals' = buildTextLocals(trackInfo)
  /\ composite' = Append(composite, textLayer(svgText'))
  /\ pc' = "bar"
  /\ UNCHANGED <<outside, callsReturned>>
  /\ UNCHANGED <<op, trackInfo, position, barArgs, progressBuffer, fullCanvas,
                 error, artStatus, result>>

\* await this.createProgressBar(duration, position, barWidth, barX, barY); push
BarStage ==
  /\ op = "render" /\ pc = "bar"
  /\ barArgs' = [duration |-> trackInfo.duration, currentTime |-> trackInfo.position,
                 barWidth |-> renderBarWidth, barX |-> textX, barY |-> renderBarY]
  /\ progressBuffer' = createProgressBar(trackInfo.duration, trackInfo.position,
                                         renderBarWidth, textX, renderBarY)
  /\ composite' = Append(composite, barLayer(progressBuffer'))
  /\ pc' = "composite"
  /\ UNCHANGED <<outside, callsReturned>>
  /\ UNCHANGED <<op, trackInfo, position, svgText, textLocals, fullCanvas,
                 error, artStatus, result>>

----------------------------------------------------------------------------
(* The canvas steps render and createBlank share *)

\* a slip: createProgressBar is not awaited, so the composite can start while
\* the bar is still being built
CompositeDoneEarly ==
  /\ op \in {"render", "createBlank"} /\ pc \in {"bar", "composite"}
  /\ fullCanvas' = [width |-> fullWidth, height |-> lcdHeight, background |-> "black",
                    layers |-> composite]
  /\ pc' = "extract"
  /\ UNCHANGED <<outside, callsReturned>>
  /\ UNCHANGED <<op, trackInfo, position, barArgs, composite, svgText, textLocals,
                 progressBuffer, error, artStatus, result>>

\* await sharp({create}).composite(composite).png().toBuffer() resolves
CompositeDone ==
  /\ op \in {"render", "createBlank"} /\ pc = "composite"
  /\ fullCanvas' = canvasOf(composite)
  /\ pc' = "extract"
  /\ UNCHANGED <<outside, callsReturned>>
  /\ UNCHANGED <<op, trackInfo, position, barArgs, composite, svgText, textLocals,
                 progressBuffer, error, artStatus, result>>

\* ... or rejects: the enclosing try catches it
CompositeFails ==
  /\ op \in {"render", "createBlank"} /\ pc = "composite"
  /\ error' = "composite"
  /\ pc' = "catch"
  /\ UNCHANGED <<outside, callsReturned>>
  /\ UNCHANGED <<op, trackInfo, position, barArgs, composite, svgText, textLocals,
                 progressBuffer, fullCanvas, artStatus, result>>

\* await sharp(fullCanvas).extract({..}).png().toBuffer() resolves; the data
\* URL is returned
ExtractDone ==
  /\ op \in {"render", "createBlank"} /\ pc = "extract"
  /\ result' = dataUrlOf(cropOf(fullCanvas, position))
  /\ pc' = "done"
  /\ UNCHANGED <<outside, callsReturned>>
  /\ UNCHANGED <<op, trackInfo, position, barArgs, composite, svgText, textLocals,
                 progressBuffer, fullCanvas, error, artStatus>>

\* ... or rejects
ExtractFails ==
  /\ op \in {"render", "createBlank"} /\ pc = "extract"
  /\ error' = "extract"
  /\ pc' = "catch"
  /\ UNCHANGED <<outside, callsReturned>>
  /\ UNCHANGED <<op, trackInfo, position, barArgs, composite, svgText, textLocals,
                 progressBuffer, fullCanvas, artStatus, result>>

----------------------------------------------------------------------------
(* createFallback(position), called directly or from render's catch *)

\* the caller invokes createFallback
FallbackCall ==
  /\ op = "idle"
  /\ \E pos \in Positions : position' = pos
  /\ op' = "createFallback"
  /\ pc' = "fallback"
  /\ trackInfo' = NoArgs
  /\ barArgs' = NoArgs
  /\ Fresh

\* render's catch: return await this.createFallback(position)
RenderCatch ==
  /\ op = "render" /\ pc = "catch"
  /\ pc' = "fallback"
  /\ UNCHANGED <<outside, callsReturned>>
  /\ UNCHANGED <<op, trackInfo, position, barArgs, composite, svgText, textLocals,
                 progressBuffer, fullCanvas, error, artStatus, result>>

\* await sharp(buffer).png().toBuffer() resolves; the data URL is returned
FallbackDone ==
  /\ op \in {"render", "createFallback"} /\ pc = "fallback"
  /\ result' = dataUrlOf(fallbackImage(position))
  /\ pc' = "done"
  /\ UNCHANGED <<outside, callsReturned>>
  /\ UNCHANGED <<op, trackInfo, position, barArgs, composite, svgText, textLocals,
                 progressBuffer, fullCanvas, error, artStatus>>

\* ... or rejects: createFallback has no try, and in render the await sits in
\* the catch block, so the rejection leaves the entry point
FallbackFails ==
  /\ op \in {"render", "createFallback"} /\ pc = "fallback"
  /\ result' = Raised
  /\ pc' = "done"
  /\ UNCHANGED <<outside, callsReturned>>
  /\ UNCHANGED <<op, trackInfo, position, barArgs, composite, svgText, textLocals,
                 progressBuffer, fullCanvas, error, artStatus>>

----------------------------------------------------------------------------
(* createBlank(position) *)

\* the caller invokes createBlank; both layers are pushed before the first await
BlankCall ==
  /\ op = "idle"
  /\ \E pos \in Positions : position' = pos
  /\ op' = "createBlank"
  /\ pc' = "composite"
  /\ trackInfo' = NoArgs
  /\ barArgs' = NoArgs
  /\ composite' = newComposite \o <<darkArtLayer, blankTextLayer>>
  /\ UNCHANGED <<outside, callsReturned>>
  /\ svgText' = NoSvg
  /\ textLocals' = NoSvg
  /\ progressBuffer' = NoSvg
  /\ fullCanvas' = NoSvg
  /\ error' = "none"
  /\ artStatus' = "none"
  /\ result' = NoResult

\* createBlank's catch: the plain black svg is built
BlankCatch ==
  /\ op = "createBlank" /\ pc = "catch"
  /\ pc' = "black"
  /\ UNCHANGED <<outside, callsReturned>>
  /\ UNCHANGED <<op, trackInfo, position, barArgs, composite, svgText, textLocals,
                 progressBuffer, fullCanvas, error, artStatus, result>>

\* await sharp(buffer).png().toBuffer() in the catch block resolves
BlackDone ==
  /\ op = "createBlank" /\ pc = "black"
  /\ result' = dataUrlOf(blackImage)
  /\ pc' = "done"
  /\ UNCHANGED <<outside, callsReturned>>
  /\ UNCHANGED <<op, trackInfo, position, barArgs, composite, svgText, textLocals,
                 progressBuffer, fullCanvas, error, artStatus>>

\* ... or rejects, and nothing catches it
BlackFails ==
  /\ op = "createBlank" /\ pc = "black"
  /\ result' = Raised
  /\ pc' = "done"
  /\ UNCHANGED <<outside, callsReturned>>
  /\ UNCHANGED <<op, trackInfo, position, barArgs, composite, svgText, textLocals,
                 progressBuffer, fullCanvas, error, artStatus>>

\* the caller has taken the result; the next call may start. The finished
\* call's layer list is garbage that nothing refers to any more.
Return ==
  /\ op \in {"render", "createBlank", "createFallback"} /\ pc = "done"
  /\ op' = "idle"
  /\ pc' = "idle"
  /\ trackInfo' = NoArgs
  /\ position' = "none"
  /\ barArgs' = NoArgs
  /\ svgText' = NoSvg
  /\ textLocals' = NoSvg
  /\ progressBuffer' = NoSvg
  /\ fullCanvas' = NoSvg
  /\ error' = "none"
  /\ artStatus' = "none"
  /\ result' = NoResult
  /\ callsReturned' = (IF callsReturned < MaxCalls THEN callsReturned + 1 ELSE callsReturned)
  /\ UNCHANGED <<composite, outside>>

Next ==
  \/ RenderCall \/ ArtSnapshotThrows \/ ArtAbsent \/ ArtExtractThrows
  \/ ArtDecodeFails \/ ArtDecoded \/ TextStage \/ BarStage
  \/ CompositeDone \/ CompositeFails \/ ExtractDone \/ ExtractFails
  \/ FallbackCall \/ RenderCatch \/ FallbackDone \/ FallbackFails
  \/ BlankCall \/ BlankCatch \/ BlackDone \/ BlackFails
  \/ Return

Spec == Init /\ [][Next]_vars

----------------------------------------------------------------------------
(* buildTextSvg and createProgressBar on their own, over wider inputs *)

TextInit ==
  /\ Started
  /\ renderer = constructed
  /\ callsReturned = 0
  /\ op = "buildTextSvg"
  /\ pc = "call"
  /\ trackInfo \in TextInputs
  /\ position = "none"
  /\ barArgs = NoArgs
  /\ composite = <<>>
  /\ svgText = NoSvg
  /\ textLocals = NoSvg
  /\ progressBuffer = NoSvg
  /\ fullCanvas = NoSvg
  /\ error = "none"
  /\ artStatus = "none"
  /\ result = NoResult

\* buildTextSvg(trackInfo, maxWidth) runs to its return
BuildTextSvg ==
  /\ op = "buildTextSvg" /\ pc = "call"
  /\ svgText' = buildTextSvg(trackInfo, textAreaWidth)
  /\ textLocals' = buildTextLocals(trackInfo)
  /\ pc' = "done"
  /\ UNCHANGED <<outside, callsReturned>>
  /\ UNCHANGED <<op, trackInfo, position, barArgs, composite, progressBuffer,
                 fullCanvas, error, artStatus, result>>

TextNext == BuildTextSvg

TextSpec == TextInit /\ [][TextNext]_vars

BarInit ==
  /\ Started
  /\ renderer = constructed
  /\ callsReturned = 0
  /\ op = "createProgressBar"
  /\ pc = "call"
  /\ trackInfo = NoArgs
  /\ position = "none"
  /\ barArgs \in BarInputs
  /\ composite = <<>>
  /\ svgText = NoSvg
  /\ textLocals = NoSvg
  /\ progressBuffer = NoSvg
  /\ fullCanvas = NoSvg
  /\ error = "none"
  /\ artStatus = "none"
  /\ result = NoResult

\* createProgressBar(duration, currentTime, barWidth, barX, barY) runs to its return
CreateProgressBar ==
  /\ op = "createProgressBar" /\ pc = "call"
  /\ progressBuffer' = createProgressBar(barArgs.duration, barArgs.currentTime,
                                         barArgs.barWidth, barArgs.barX, barArgs.barY)
  /\ pc' = "done"
  /\ UNCHANGED <<outside, callsReturned>>
  /\ UNCHANGED <<op, trackInfo, position, barArgs, composite, svgText, textLocals,
                 fullCanvas, error, artStatus, result>>

BarNext == CreateProgressBar

BarSpec == BarInit /\ [][BarNext]_vars

----------------------------------------------------------------------------
(* Reading escaped text back *)

Entities == {EntAmp, EntLt, EntGt, EntQuot, EntApos}

\* the character an entity stands for
EntityChar(e) ==
  CASE e = EntAmp -> "&" [] e = EntLt -> "<" [] e = EntGt -> ">"
    [] e = EntQuot -> "\"" [] e = EntApos -> "'"

\* whether entity e starts at index i of text
EntityAt(text, i, e) ==
  /\ i + Len(e) - 1 <= Len(text)
  /\ SubSeq(text, i, i + Len(e) - 1) = e

RECURSIVE Unescape(_)
\* one left-to-right pass that reads each entity as its character
Unescape(text) ==
  IF text = <<>> THEN <<>>
  ELSE IF \E e \in Entities : EntityAt(text, 1, e)
    THEN LET e == CHOOSE e \in Entities : EntityAt(text, 1, e)
         IN  <<EntityChar(e)>> \o Unescape(SubSeq(text, Len(e) + 1, Len(text)))
  ELSE <<Head(text)>> \o Unescape(Tail(text))

----------------------------------------------------------------------------
(* Properties of the entry points (Spec) *)

\* C1: every public entry point (render, createBlank, createFallback), with
\* any snapshot and position and with any raster call able to reject,
\* completes by returning a 'data:image/png;base64,...' string and never
\* raises to its caller.
C1_NeverRaises ==
  (op \in {"render", "createBlank", "createFallback"} /\ pc = "done")
    => (result.k = "returned" /\ result.scheme = "data:image/png;base64,")

\* C2: when the snapshot carries artwork and extracting or decoding it
\* fails, render does not enter its catch block for that: the text and the
\* bar are built from the snapshot and composited, and unless the composite
\* or the extract itself rejects, the requested half of that canvas is
\* returned, not the createFallback image.
C2_ArtFailureAbsorbed ==
  (op = "render" /\ artStatus = "failed") =>
    /\ pc \in {"text", "bar", "composite", "extract", "catch", "fallback", "done"}
    /\ (pc \in {"catch", "fallback"} \/ result = Raised
          \/ (result.k = "returned" /\ result.image.kind # "crop"))
         => error \in {"composite", "extract"}
    /\ pc \notin {"text", "bar"} =>
         /\ svgText # NoSvg /\ progressBuffer # NoSvg
         /\ textLocals.title = (IF trackInfo.trackName.k = "string"
                                  THEN trackInfo.trackName.s ELSE UnknownTrack)
         /\ Unescape(svgText.title.text) = textLocals.titleCut
         /\ barArgs.duration = trackInfo.duration
         /\ barArgs.currentTime = trackInfo.position
         /\ progressBuffer.shapes[1].width = 276
         /\ composite = <<textLayer(svgText), barLayer(progressBuffer)>>
    /\ (pc = "done" /\ error = "none") =>
         /\ result.k = "returned"
         /\ result.image.kind = "crop"
         /\ result.image.left = (IF position = "left" THEN 0 ELSE 200)
         /\ result.image.width = 200
         /\ result.image.canvas.layers = composite

\* C2's case: garbage artwork bytes, and the call returned the cropped canvas
C2_Witness ==
  /\ op = "render" /\ pc = "done" /\ artStatus = "failed"
  /\ trackInfo.thumbnail = Str(<<"JUNK">>)
  /\ position = "right"
  /\ result.k = "returned" /\ result.image.kind = "crop"

\* C10: every render call that completes through the main pipeline has
\* composited a layer at left 0, top 0 covering the artwork square: the
\* decoded artwork when decoding succeeded, a themed placeholder when the
\* snapshot has no artwork or decoding failed.
C10_ArtLayerOrPlaceholder ==
  (op = "render" /\ pc = "done" /\ result.k = "returned" /\ result.image.kind = "crop")
    => \E i \in 1..Len(result.image.canvas.layers) :
         LET layer == result.image.canvas.layers[i]
         IN  /\ layer.left = 0 /\ layer.top = 0
             /\ layer.width = 100 /\ layer.height = 100
             /\ layer.kind = (IF artStatus = "decoded" THEN "artwork" ELSE "placeholder")

----------------------------------------------------------------------------
(* Properties of the text layout (TextSpec) *)

\* the text of the call's two elements, each with the budget of its field
TextFields ==
  {[raw |-> textLocals.title, cut |-> textLocals.titleCut,
    out |-> svgText.title.text, budget |-> 28],
   [raw |-> textLocals.artist, cut |-> textLocals.artistCut,
    out |-> svgText.artist.text, budget |-> 32]}

\* C4: buildTextSvg emits the title "Unknown Track" when the track name is
\* absent or empty, and the artist "Unknown Artist" when the artist is
\* absent, an empty string or an empty list; otherwise the artist text is
\* the list's elements joined with ", " (or the single string).
C4_Defaults ==
  (op = "buildTextSvg" /\ pc = "done") =>
    /\ (trackInfo.trackName \in {Undefined, Null, Str(<<>>)})
         => svgText.title.text = UnknownTrack
    /\ (trackInfo.artist \in {Undefined, Null, Str(<<>>), Arr(<<>>)})
         => svgText.artist.text = UnknownArtist
    /\ (trackInfo.artist.k = "string" /\ trackInfo.artist.s # <<>>)
         => textLocals.artist = trackInfo.artist.s
    /\ (trackInfo.artist.k = "array" /\ Len(trackInfo.artist.a) = 1)
         => textLocals.artist = trackInfo.artist.a[1]
    /\ (trackInfo.artist.k = "array" /\ Len(trackInfo.artist.a) = 2)
         => textLocals.artist
              = trackInfo.artist.a[1] \o <<",", " ">> \o trackInfo.artist.a[2]

\* C5: a string longer than its budget B (28 title, 32 artist) is cut to its
\* first B-3 characters followed by "...", so the result has length exactly
\* B; a string of length at most B is left unchanged.
C5_Truncation ==
  (op = "buildTextSvg" /\ pc = "done") =>
    \A f \in TextFields :
      /\ Len(f.raw) > f.budget =>
           /\ Len(f.cut) = f.budget
           /\ \A i \in 1..(f.budget - 3) : f.cut[i] = f.raw[i]
           /\ \A i \in (f.budget - 2)..f.budget : f.cut[i] = "."
      /\ Len(f.raw) <= f.budget => f.cut = f.raw

\* C5's case: a title one character over its budget was cut to the budget
C5_Witness ==
  /\ op = "buildTextSvg" /\ pc = "done"
  /\ Len(textLocals.title) = 29
  /\ Len(textLocals.titleCut) = 28
  /\ textLocals.titleCut[25] = "&" /\ textLocals.titleCut[26] = "."

\* C6: the text embedded in the markup holds no raw <, >, " or ', every &
\* in it begins one of the entities &amp; &lt; &gt; &quot; &#39;, and
\* unescaping it gives back the truncated input.
C6_Escaped ==
  (op = "buildTextSvg" /\ pc = "done") =>
    \A f \in TextFields :
      /\ \A i \in 1..Len(f.out) : f.out[i] \notin {"<", ">", "\"", "'"}
      /\ \A i \in 1..Len(f.out) :
           f.out[i] = "&" => \E e \in Entities : EntityAt(f.out, i, e)
      /\ Unescape(f.out) = f.cut

\* C6's case: a title that already reads like an entity was escaped again
C6_Witness ==
  /\ op = "buildTextSvg" /\ pc = "done"
  /\ trackInfo.trackName = Str(<<"&", "l", "t", ";">>)
  /\ svgText.title.text = <<"&", "a", "m", "p", ";", "l", "t", ";">>
  /\ trackInfo.artist = Str(<<"a">>)

----------------------------------------------------------------------------
(* Properties of the progress bar (BarSpec) *)

\* the width of the fill the bar holds, 0 when it holds none
emittedFill(bar) ==
  IF Len(bar.shapes) > 1 THEN bar.shapes[2].width ELSE Num(0)

\* round(W * clamp(p / d, 0, 1)) for d > 0
clampedFill(d, p, w) ==
  IF p <= 0 THEN 0
  ELSE IF p >= d THEN w
  ELSE (2 * p * w + d) \div (2 * d)

\* createProgressBar returned for a duration > 0 and a numeric position
BarWithProgress ==
  /\ op = "createProgressBar" /\ pc = "done"
  /\ barArgs.duration.k = "number" /\ barArgs.duration.n > 0
  /\ barArgs.currentTime.k = "number"

\* C3: for every duration > 0, bar width W and position (also < 0 and
\* > duration) the fill width emitted is round(W * clamp(position/duration,
\* 0, 1)): it lies in [0, W], and no fill shape is emitted when it is 0.
C3_FillIsClamped ==
  BarWithProgress =>
    /\ emittedFill(progressBuffer)
         = Num(clampedFill(barArgs.duration.n, barArgs.currentTime.n, barArgs.barWidth))
    /\ emittedFill(progressBuffer).k = "number"
    /\ emittedFill(progressBuffer).n \in 0..barArgs.barWidth
    /\ Len(progressBuffer.shapes) > 1 => emittedFill(progressBuffer) # Num(0)

\* a bar that holds the background track of the call's geometry and no fill
TrackOnly(bar) ==
  /\ Len(bar.shapes) = 1
  /\ bar.shapes[1] = [x |-> barArgs.barX, y |-> barArgs.barY,
                      width |-> barArgs.barWidth, height |-> 5, rx |-> 1,
                      fill |-> "#404040"]

\* C7: when duration is 0 or absent, createProgressBar emits exactly the
\* background track rectangle and no fill rectangle, whatever the position.
C7_NoDurationNoFill ==
  (op = "createProgressBar" /\ pc = "done"
     /\ barArgs.duration \in {Undefined, Null, Num(0)})
    => TrackOnly(progressBuffer)

\* C7's case: no duration and a very large position
C7_Witness ==
  /\ op = "createProgressBar" /\ pc = "done"
  /\ barArgs.duration = Num(0)
  /\ barArgs.currentTime.k = "number" /\ barArgs.currentTime.n > MaxDuration + MaxOutside
  /\ barArgs.barWidth = 276
  /\ TrackOnly(progressBuffer)

\* createProgressBar returned for 0% progress: a duration > 0 and position 0
BarAtZero == BarWithProgress /\ barArgs.currentTime = Num(0)

\* the bar for 'no progress information' with the call's geometry
NoInfoBar(d) ==
  createProgressBar(d, barArgs.currentTime, barArgs.barWidth, barArgs.barX, barArgs.barY)

C9_Monotone ==
  (BarWithProgress /\ barArgs.currentTime.n \in 0..barArgs.duration.n) =>
    /\ emittedFill(progressBuffer).k = "number"
    /\ \A q \in 0..barArgs.currentTime.n :
         LET before == emittedFill(createProgressBar(barArgs.duration, Num(q),
                          barArgs.barWidth, barArgs.barX, barArgs.barY))
         IN  before.k = "number" /\ before.n <= emittedFill(progressBuffer).n
    /\ barArgs.currentTime.n = 0 => Len(progressBuffer.shapes) = 1
    /\ barArgs.currentTime.n = barArgs.duration.n =>
         /\ Len(progressBuffer.shapes) = 2
         /\ progressBuffer.shapes[2].width = Num(barArgs.barWidth)

\* C9's case: a position strictly inside the track, with a partial fill
C9_Witness ==
  /\ BarWithProgress
  /\ barArgs.currentTime.n > 0 /\ barArgs.currentTime.n < barArgs.duration.n
  /\ barArgs.barWidth = 276
  /\ emittedFill(progressBuffer).n > 0 /\ emittedFill(progressBuffer).n < 276

----------------------------------------------------------------------------
(* Properties of the canvas and of the calls' independence (Spec) *)

\* the pixel columns a rectangle covers
Columns(left, width) == left..(left + width - 1)

\* a call that returned a crop of the composited canvas
ReturnedCrop ==
  /\ op \in {"render", "createBlank"} /\ pc = "done"
  /\ result.k = "returned" /\ result.image.kind = "crop"

\* C11: in render and createBlank, position 'left' extracts columns [0, 200)
\* and 'right' columns [200, 400) of the 400x100 canvas: the two slices have
\* width 200 and height 100, are disjoint, together cover the canvas, and
\* the 100-pixel artwork square lies inside the left slice.
C11_Halves ==
  (ReturnedCrop /\ position \in {"left", "right"}) =>
    LET mine == Columns(result.image.left, result.image.width)
        other == Columns(cropX(IF position = "left" THEN "right" ELSE "left"), dialWidth)
        layers == result.image.canvas.layers
    IN  /\ result.image.canvas.width = 400 /\ result.image.canvas.height = 100
        /\ result.image.top = 0 /\ result.image.height = 100
        /\ result.image.width = 200
        /\ mine = (IF position = "left" THEN 0..199 ELSE 200..399)
        /\ Cardinality(other) = Cardinality(mine)
        /\ mine \cap other = {}
        /\ mine \cup other = 0..399
        /\ \A i \in 1..Len(layers) :
             layers[i].kind \in {"artwork", "placeholder"} =>
               /\ Columns(layers[i].left, layers[i].width) = 0..99
               /\ Columns(layers[i].left, layers[i].width)
                    \subseteq (IF position = "left" THEN mine ELSE other)

\* C11's case: the right half of a canvas that holds decoded artwork
C11_Witness ==
  /\ ReturnedCrop /\ op = "render" /\ position = "right"
  /\ artStatus = "decoded"
  /\ result.image.left = 200

\* C14: createFallback's outcome depends on the position alone: whatever
\* snapshot made render fail, the image is the one of that position, and the
\* step reads and writes nothing else of the call or of the renderer.
C14_FallbackOnlyPosition ==
  [][(pc = "fallback") =>
       /\ UNCHANGED <<trackInfo, position, barArgs, composite, svgText, textLocals,
                      progressBuffer, fullCanvas, error, artStatus, renderer>>
       /\ result' \in
            {Raised,
             [k |-> "returned", scheme |-> "data:image/png;base64,",
              image |-> [kind |-> "fallback", width |-> 200, height |-> 100,
                         message |-> IF position = "left" THEN "note glyph" ELSE "No Track",
                         fontSize |-> IF position = "left" THEN 40 ELSE 14]]}]_vars

\* C14's case: render fell back after its composite rejected, with a
\* snapshot that has a track name
C14_Witness ==
  /\ op = "render" /\ pc = "done" /\ error = "composite"
  /\ trackInfo.k = "object" /\ Truthy(trackInfo.trackName)
  /\ result.k = "returned" /\ result.image.kind = "fallback"

\* the layer list render builds for the call's snapshot when run on its own
ExpectedLayers ==
  (IF artStatus = "decoded"
     THEN <<[kind |-> "artwork", width |-> 100, height |-> 100, left |-> 0, top |-> 0]>>
     ELSE <<>>)
  \o <<[kind |-> "text", input |-> buildTextSvg(trackInfo, 284), width |-> 280,
        height |-> 100, left |-> 108, top |-> 0],
       [kind |-> "bar",
        input |-> createProgressBar(trackInfo.duration, trackInfo.position, 276, 108, 75),
        width |-> 400, height |-> 100, left |-> 0, top |-> 0]>>

\* C17: no renderer operation modifies a renderer field, and after any
\* sequence of earlier calls render's result is determined by the snapshot
\* and the position of this call (and by whether its own raster calls
\* succeeded): the same layer list, the same crop rectangle, the same output.
C17_NoHiddenState ==
  /\ renderer = [fullWidth |-> 400, dialWidth |-> 200, lcdHeight |-> 100,
                 artworkSize |-> 100, padding |-> 8, textColor |-> "#ffffff",
                 backgroundColor |-> "#000000", accentColor |-> "#007bff"]
  /\ (op = "render" /\ pc = "done" /\ result.k = "returned") =>
       IF error = "none"
         THEN /\ composite = ExpectedLayers
              /\ result.image
                   = [kind |-> "crop", left |-> (IF position = "left" THEN 0 ELSE 200),
                      top |-> 0, width |-> 200, height |-> 100,
                      canvas |-> [width |-> 400, height |-> 100, background |-> "black",
                                  layers |-> ExpectedLayers]]
         ELSE result.image.kind = "fallback"

\* C17's case: a render that returned after earlier calls had returned
C17_Witness ==
  /\ op = "render" /\ pc = "done" /\ callsReturned = MaxCalls
  /\ result.k = "returned" /\ result.image.kind = "crop"
  /\ Len(result.image.canvas.layers) = 3

\* C18: within one render call the stages run in the order artwork decode,
\* text layout, progress bar, composite, extract and encode: a stage has
\* started only when the one before it has finished, and the extract works
\* on the completed full-width composite.
C18_StageOrder ==
  (op = "render") =>
    /\ pc = "art" => (artStatus = "none" /\ svgText = NoSvg)
    /\ svgText # NoSvg => artStatus \in {"absent", "failed", "decoded"}
    /\ pc = "text" => (svgText = NoSvg /\ progressBuffer = NoSvg)
    /\ progressBuffer # NoSvg => svgText # NoSvg
    /\ pc = "bar" => (progressBuffer = NoSvg /\ fullCanvas = NoSvg)
    /\ fullCanvas # NoSvg =>
         /\ progressBuffer # NoSvg
         /\ fullCanvas.width = 400
         /\ Len(fullCanvas.layers) >= 2
         /\ fullCanvas.layers[Len(fullCanvas.layers) - 1].kind = "text"
         /\ fullCanvas.layers[Len(fullCanvas.layers)].kind = "bar"
         /\ fullCanvas.layers[Len(fullCanvas.layers)].input = progressBuffer
    /\ pc = "composite" => (fullCanvas = NoSvg /\ result = NoResult)
    /\ pc = "extract" => (fullCanvas # NoSvg /\ result = NoResult)
    /\ (result.k = "returned" /\ result.image.kind = "crop") =>
         (fullCanvas # NoSvg /\ result.image.canvas = fullCanvas)

\* C18's case: a call that went through every stage, artwork included
C18_Witness ==
  /\ op = "render" /\ pc = "done" /\ artStatus = "decoded"
  /\ result.k = "returned" /\ result.image.kind = "crop"
  /\ Len(fullCanvas.layers) = 3

----------------------------------------------------------------------------
(* The plugin (src/src/plugin.js): media events and renderer calls in flight *)

\* the event object the media session hands to the callback; seq is the
\* order of arrival and stands for the identity of the object
MediaEvent(name, artist, thumbnail, duration, time, playing, n) ==
  [k |-> "object", trackName |-> name, artist |-> artist, thumbnail |-> thumbnail,
   duration |-> duration, position |-> time, isPlaying |-> playing, seq |-> n]

\* the events that can arrive as number n: first a playing track with
\* artwork, then either another playing track without artwork or the first
\* track paused
EventsAt(n) ==
  IF n = 1
    THEN {MediaEvent(Str(<<"a">>), Str(<<"x">>),
                     Str(<<"data:", "image/png;base64", ",", "IMG">>),
                     Num(4), Num(2), TRUE, n)}
    ELSE {MediaEvent(Str(<<"b">>), Arr(<<<<"y">>, <<"z">>>>), Null, Num(5), Num(0), TRUE, n),
          MediaEvent(Str(<<"a">>), Str(<<"x">>),
                     Str(<<"data:", "image/png;base64", ",", "IMG">>),
                     Num(4), Num(3), FALSE, n)}

\* a slip: the idle test looks at the snapshot's presence only
PlayingIfPresent(info) == info.k # "null"

\* the negation of `!currentTrackInfo || !currentTrackInfo.isPlaying`
Playing(info) == info.k # "null" /\ info.isPlaying

\* the arrival number of the snapshot an update started from, 0 for null
seqOf(info) == IF info.k = "null" THEN 0 ELSE info.seq

\* position || 'left'
orLeft(p) == IF p = "unset" THEN "left" ELSE p

\* a slip: the call reads the plugin's current snapshot at every use
snapshotNow(f) == currentTrackInfo

\* the snapshot a render call works on: its parameter trackInfo, bound at
\* the call
snapshotOf(f) == f.trackInfo

\* a slip: the layer list is one list shared by all calls in flight
compositeOfAll(ts, t) ==
  LET upTo[i \in 0..MaxTasks] ==
        IF i = 0 THEN <<>>
        ELSE upTo[i - 1] \o (IF ts[i].kind # "free" /\ ts[i].frame.k = "frame"
                               THEN ts[i].frame.composite ELSE <<>>)
  IN upTo[MaxTasks]

\* the layer list the call of task t hands to sharp: its own `composite`
compositeOf(ts, t) == ts[t].frame.composite

\* lines 102-126: the text layer is built and pushed and createProgressBar
\* is called; the call awaits the bar
textAndBar(f) ==
  [f EXCEPT !.composite = Append(@, textLayer(buildTextSvg(snapshotOf(f), textAreaWidth))),
            !.pc = "bar"]

\* render(trackInfo, position) up to its first await
renderEnter(info, pos) ==
  LET f == [k |-> "frame", op |-> "render", pc |-> "decode", trackInfo |-> info,
            position |-> pos, composite |-> <<>>, artBuffer |-> NoArgs,
            fullCanvas |-> NoSvg, artStatus |-> "none", error |-> "none",
            result |-> NoResult]
  IN  IF snapshotOf(f).k # "object"
        THEN [f EXCEPT !.error = "TypeError", !.pc = "fallback"]
      ELSE IF ~Truthy(snapshotOf(f).thumbnail)
        THEN textAndBar([f EXCEPT !.artStatus = "absent"])
      ELSE IF extractBase64FromDataUrl(snapshotOf(f).thumbnail).k = "throw"
        THEN textAndBar([f EXCEPT !.artStatus = "failed"])
      ELSE [f EXCEPT !.artBuffer = extractBase64FromDataUrl(snapshotOf(f).thumbnail)]

\* createBlank(position) up to its first await
blankEnter(pos) ==
  [k |-> "frame", op |-> "createBlank", pc |-> "composite", trackInfo |-> NoArgs,
   position |-> pos, composite |-> <<darkArtLayer, blankTextLayer>>,
   artBuffer |-> NoArgs, fullCanvas |-> NoSvg, artStatus |-> "none", error |-> "none", result |-> NoResult]

\* createFallback(position) up to its await
fallbackEnter(pos) ==
  [k |-> "frame", op |-> "createFallback", pc |-> "fallback", trackInfo |-> NoArgs,
   position |-> pos, composite |-> <<>>, artBuffer |-> NoArgs, fullCanvas |-> NoSvg,
   artStatus |-> "none", error |-> "none", result |-> NoResult]

\* the catch blocks of render (line 161) and createBlank (line 298)
caught(f, what) ==
  [f EXCEPT !.error = what, !.pc = IF f.op = "render" THEN "fallback" ELSE "black"]

\* the frames the call of task t can be in once the raster call it awaits
\* has resolved or rejected, run on to the next await or to the return
frameSettles(ts, t) ==
  LET f == ts[t].frame IN
  CASE f.pc = "decode" ->
         (IF decodable(f.artBuffer.bytes)
            THEN {textAndBar([f EXCEPT !.composite = Append(@, artLayer),
                                       !.artStatus = "decoded"])}
            ELSE {})
         \cup {textAndBar([f EXCEPT !.artStatus = "failed"])}
    [] f.pc = "bar" ->
         {[f EXCEPT !.composite =
                      Append(@, barLayer(createProgressBar(snapshotOf(f).duration,
                                                           snapshotOf(f).position,
                                                           renderBarWidth, textX, renderBarY))),
                    !.pc = "composite"]}
    [] f.pc = "composite" ->
         {[f EXCEPT !.fullCanvas = canvasOf(compositeOf(ts, t)), !.pc = "extract"],
          caught(f, "composite")}
    [] f.pc = "extract" ->
         {[f EXCEPT !.result = dataUrlOf(cropOf(f.fullCanvas, f.position)), !.pc = "done"],
          caught(f, "extract")}
    [] f.pc = "fallback" ->
         {[f EXCEPT !.result = dataUrlOf(fallbackImage(f.position)), !.pc = "done"],
          [f EXCEPT !.result = Raised, !.pc = "done"]}
    [] f.pc = "black" ->
         {[f EXCEPT !.result = dataUrlOf(blackImage), !.pc = "done"],
          [f EXCEPT !.result = Raised, !.pc = "done"]}

RECURSIVE settled(_, _, _)
\* the frames a set of frames of task t ends in when every raster call the
\* renderer call makes has resolved or rejected
settled(ts, t, frames) ==
  IF \A f \in frames : f.pc = "done" THEN frames
  ELSE settled(ts, t,
               UNION {IF f.pc = "done" THEN {f}
                      ELSE frameSettles([ts EXCEPT ![t].frame = f], t) : f \in frames})

\* the outcomes of the renderer call of task t, taken as a whole
callSettles(ts, t) == settled(ts, t, {ts[t].frame})

----------------------------------------------------------------------------
(* The plugin: updateKeypadAction, updateLCDAction and updateAllActions,    *)
(* each run from one await to the next                                      *)

\* a handler or pass that has just been entered; registered (the actions
\* in the two sets when a pass began) and failed (an update of the pass has
\* thrown into the pass's catch) are history
newTask(kind) ==
  [kind |-> kind, pc |-> "start", action |-> "none", position |-> "none",
   seen |-> Null, inst |-> 0, ok |-> TRUE, phase |-> "none", visited |-> {},
   registered |-> {}, failed |-> FALSE, frame |-> NoFrame]

\* what one run of a task leaves: the task at its next await (or the freed
\* slot), the messages it sent to the hardware, the functions an exception left
Out(task, sends, raised) == [task |-> task, sends |-> sends, raised |-> raised]

\* action.setTitle / setImage / setFeedback: the message goes out at the
\* call unless the call is one that will reject; from is the arrival number
\* of the snapshot the content was made from
Send(a, field, value, from, ok) ==
  IF ok THEN <<[action |-> a, field |-> field, value |-> value, from |-> from]>> ELSE <<>>

Range(contexts) == {contexts[i] : i \in 1..Len(contexts)}

\* the hardware after the messages of one run: the action now shows
\* content of the message's snapshot; a message for an action that is no
\* longer visible changes nothing
shownAfter(sh, sends, visible) ==
  IF sends = <<>> \/ sends[1].action \notin visible
    THEN sh
    ELSE [sh EXCEPT ![sends[1].action] = sends[1].from]

\* the awaits whose rejection changes what the code does next; everywhere
\* else the catch only logs and the code goes the same way
fateMatters(at) == at \in {"idleTitle", "image", "imageFallback", "renderSend"}

\* the task suspended at the send it has just made
awaiting(T, at, ok) == [T EXCEPT !.pc = at, !.ok = IF fateMatters(at) THEN ok ELSE TRUE]

\* the plugin's globals as the running code reads them
Globals(info, kc, lc, pos) == [info |-> info, kc |-> kc, lc |-> lc, pos |-> pos]

IdleTitle == Str(<<"note glyph">>)
DefaultIcon == Str(<<"assets/action">>)
Unknown == <<"U","n","k","n","o","w","n">>

\* `${trackName || 'Unknown'}\n${artists}`
keypadTitle(info) ==
  [k |-> "title",
   first |-> IF Truthy(info.trackName) THEN info.trackName.s ELSE Unknown,
   second |-> IF info.artist.k = "array" THEN Join(info.artist.a, Separator)
              ELSE IF Truthy(info.artist) THEN info.artist.s ELSE Unknown]

\* thumbnail && thumbnail.length > 0
hasThumbnail(info) ==
  Truthy(info.thumbnail) /\ (info.thumbnail.k = "string" => Len(info.thumbnail.s) > 0)

\* updateKeypadAction(action) up to its first await: the idle test and the
\* first setTitle
keypadStart(T, a, info, ok) ==
  LET U == [T EXCEPT !.action = a, !.position = "none", !.seen = info, !.frame = NoFrame]
  IN  IF ~Playing(info)
        THEN Out(awaiting(U, "idleTitle", ok),
                 Send(a, "title", IdleTitle, seqOf(info), ok), {})
        ELSE Out(awaiting(U, "title", ok),
                 Send(a, "title", keypadTitle(info), seqOf(info), ok), {})

\* updateLCDAction(action, position) up to its first await: the idle test
\* and the call of createBlank or render
lcdStart(T, a, pos, info) ==
  LET U == [T EXCEPT !.action = a, !.position = pos, !.seen = info, !.ok = TRUE]
  IN  IF ~Playing(info)
        THEN [U EXCEPT !.pc = "blank", !.frame = blankEnter(pos)]
        ELSE [U EXCEPT !.pc = "render", !.frame = renderEnter(info, pos)]

\* the first element of an insertion-ordered set the pass has not visited
firstUnvisited(contexts, visited) ==
  IF \E i \in 1..Len(contexts) : contexts[i] \notin visited
    THEN contexts[CHOOSE i \in 1..Len(contexts) :
                    /\ contexts[i] \notin visited
                    /\ \A j \in 1..(i - 1) : contexts[j] \in visited]
    ELSE "none"

\* updateAllActions: the loop over keypadContexts, then the loop over
\* lcdContexts, run to the next await; an exception of the last update was
\* caught and logged by the loop body
passNext(T, G, raised, ok) ==
  IF T.phase = "keypads" /\ firstUnvisited(G.kc, T.visited) # "none"
    THEN LET r == keypadStart(T, firstUnvisited(G.kc, T.visited), G.info, ok)
         IN  Out(r.task, r.sends, raised)
  ELSE IF firstUnvisited(G.lc, T.visited) # "none"
    THEN LET a == firstUnvisited(G.lc, T.visited)
         IN  Out(lcdStart([T EXCEPT !.phase = "lcds"], a, orLeft(G.pos[a]), G.info),
                 <<>>, raised)
  ELSE Out(FreeTask, <<>>, raised)

\* a slip: the loops of updateAllActions have no try/catch, so an update
\* that throws ends the pass and rejects it
afterUpdateUncaught(T, G, raised, ok) ==
  IF T.kind = "pass" /\ raised = {}
    THEN passNext([T EXCEPT !.visited = @ \cup {T.action}], G, raised, ok)
    ELSE Out(FreeTask, <<>>,
             IF T.kind = "pass" THEN raised \cup {"updateAllActions"} ELSE raised)

\* an update function has returned, or thrown when raised is not empty, to
\* its caller: the pass catches and logs (lines 268, 279) and goes on with
\* the next action, a handler ends
afterUpdate(T, G, raised, ok) ==
  IF T.kind = "pass"
    THEN passNext([T EXCEPT !.visited = @ \cup {T.action},
                            !.failed = @ \/ raised # {}], G, raised, ok)
    ELSE Out(FreeTask, <<>>, raised)

\* a slip: a failed render is not caught in updateLCDAction
renderFailureEscapes(T, G, ok) == afterUpdate(T, G, {"updateLCDAction"}, ok)

\* updateLCDAction's catch (lines 357-364): createFallback is called for
\* the same position
renderFailureCaught(T, G, ok) ==
  Out([T EXCEPT !.pc = "fallback", !.frame = fallbackEnter(T.position), !.ok = TRUE],
      <<>>, {})

\* updateLCDAction after the renderer call it awaited has returned or raised
lcdAfterCall(T, G, ok) ==
  LET res == T.frame.result
      sent == Send(T.action, "image", res.image, seqOf(T.seen), ok)
  IN
  CASE T.pc = "blank" ->
         IF res.k = "returned"
           THEN Out(awaiting(T, "blankSend", ok), sent, {})
           ELSE afterUpdate(T, G, {}, ok)
    [] T.pc = "render" ->
         IF res.k = "returned"
           THEN Out(awaiting(T, "renderSend", ok), sent, {})
           ELSE renderFailureCaught(T, G, ok)
    [] T.pc = "fallback" ->
         IF res.k = "returned"
           THEN Out(awaiting(T, "fallbackSend", ok), sent, {})
           ELSE afterUpdate(T, G, {}, ok)

\* updateLCDAction after the setFeedback it awaited has resolved (T.ok) or
\* rejected
lcdAfterSend(T, G, ok) ==
  IF T.pc = "renderSend" /\ ~T.ok
    THEN renderFailureCaught(T, G, ok)
    ELSE afterUpdate(T, G, {}, ok)

\* updateKeypadAction after the setTitle or setImage it awaited has
\* resolved (T.ok) or rejected; ok is the fate of the next call it makes
keypadAfterSend(T, G, ok) ==
  LET from == seqOf(T.seen)
      icon == Send(T.action, "image", DefaultIcon, from, ok)
  IN
  CASE T.pc = "idleTitle" ->
         IF T.ok THEN Out(awaiting(T, "idleImage", ok), icon, {})
         ELSE afterUpdate(T, G, {}, ok)
    [] T.pc = "idleImage" -> afterUpdate(T, G, {}, ok)
    [] T.pc = "title" ->
         IF hasThumbnail(T.seen)
           THEN Out(awaiting(T, "image", ok),
                    Send(T.action, "image", T.seen.thumbnail, from, ok), {})
           ELSE Out(awaiting(T, "defaultImage", ok), icon, {})
    [] T.pc = "image" ->
         IF T.ok THEN afterUpdate(T, G, {}, ok)
         ELSE Out(awaiting(T, "imageFallback", ok), icon, {})
    [] T.pc = "imageFallback" ->
         IF T.ok THEN afterUpdate(T, G, {}, ok)
         ELSE afterUpdate(T, G, {"updateKeypadAction"}, ok)
    [] T.pc = "defaultImage" -> afterUpdate(T, G, {}, ok)

----------------------------------------------------------------------------
(* The plugin: the handlers and the settling of what they await *)

\* Set.prototype.delete on an insertion-ordered set
Without(contexts, a) == SelectSeq(contexts, LAMBDA x : x # a)

HasFree == \E t \in 1..MaxTasks : tasks[t] = FreeTask

\* the slot a newly suspended handler takes
freeSlot ==
  CHOOSE t \in 1..MaxTasks :
    tasks[t] = FreeTask /\ \A u \in 1..(t - 1) : tasks[u] # FreeTask

\* the number the next constructed instance gets, 0 when the bound is used up
freshInstance ==
  IF \E i \in 1..MaxInstances : instances[i] = "none"
    THEN CHOOSE i \in 1..MaxInstances :
           instances[i] = "none" /\ \A j \in 1..(i - 1) : instances[j] # "none"
    ELSE 0

\* the globals as they are now
Now == Globals(currentTrackInfo, keypadContexts, lcdContexts, actionPosition)

\* the actions the hardware shows
Visible == Range(keypadContexts) \cup Range(lcdContexts)

\* task slot t takes the outcome of one run; visible are the actions shown
\* when the run ends
CommitWith(t, r, visible) ==
  /\ tasks' = [tasks EXCEPT ![t] = r.task]
  /\ shown' = shownAfter(shown, r.sends, visible)
  /\ raisedFrom' = raisedFrom \cup r.raised

\* the same for a run that leaves the sets of visible actions alone
Commit(t, r) ==
  /\ tasks' = [tasks EXCEPT ![t] = r.task]
  /\ shown' = shownAfter(shown, r.sends, Visible)
  /\ raisedFrom' = raisedFrom \cup r.raised

\* initializeNowPlaying past line 203: the instance is constructed and
\* assigned, subscribe is called and awaited
initializeNowPlaying(T) ==
  /\ freshInstance # 0
  /\ nowPlayingInstance' = freshInstance
  /\ instances' = [instances EXCEPT ![freshInstance] = "constructed"]
  /\ Commit(freeSlot, Out([T EXCEPT !.pc = "subscribe", !.inst = freshInstance], <<>>, {}))

\* the instance's callback (lines 206-223): the snapshot is replaced and an
\* update pass is started and not awaited
MediaEventArrives ==
  /\ eventsReceived < MaxEvents
  /\ \E i \in 1..MaxInstances : instances[i] = "subscribed"
  /\ \E e \in EventsAt(eventsReceived + 1), ok \in BOOLEAN :
       LET r == passNext([newTask("pass") EXCEPT !.phase = "keypads",
                                                 !.registered = Visible],
                         Globals(e, keypadContexts, lcdContexts, actionPosition), {}, ok)
       IN  /\ currentTrackInfo' = e
           /\ IF r.task = FreeTask
                THEN ok /\ UNCHANGED <<tasks, shown, raisedFrom>>
                ELSE HasFree /\ Commit(freeSlot, r)
  /\ eventsReceived' = eventsReceived + 1
  /\ UNCHANGED <<nowPlayingInstance, instances, keypadContexts, lcdContexts,
                 actionPosition, keyPresses, playPauseIssued, seekIssued, dialRotations>>
  /\ UNCHANGED <<callVars, renderer, callsReturned>>

\* keypad onWillAppear (lines 374-381) up to its first await
KeypadWillAppear ==
  /\ HasFree
  /\ \E a \in Keypads \ Range(keypadContexts), ok \in BOOLEAN :
       /\ keypadContexts' = Append(keypadContexts, a)
       /\ IF nowPlayingInstance # 0
            THEN /\ Commit(freeSlot,
                           keypadStart(newTask("keypadWillAppear"), a, currentTrackInfo, ok))
                 /\ UNCHANGED <<nowPlayingInstance, instances>>
            ELSE /\ ok
                 /\ initializeNowPlaying([newTask("keypadWillAppear") EXCEPT !.action = a])
  /\ UNCHANGED <<currentTrackInfo, lcdContexts, actionPosition, eventsReceived,
                 keyPresses, playPauseIssued, seekIssued, dialRotations>>
  /\ UNCHANGED <<callVars, renderer, callsReturned>>

\* LCD onWillAppear (lines 415-428) up to its first await
LcdWillAppear ==
  /\ HasFree
  /\ \E a \in Lcds \ Range(lcdContexts), setting \in {"unset", "left", "right"} :
       /\ actionPosition' = [actionPosition EXCEPT ![a] = orLeft(setting)]
       /\ lcdContexts' = Append(lcdContexts, a)
       /\ IF nowPlayingInstance # 0
            THEN /\ Commit(freeSlot,
                           Out(lcdStart(newTask("lcdWillAppear"), a, orLeft(setting),
                                        currentTrackInfo), <<>>, {}))
                 /\ UNCHANGED <<nowPlayingInstance, instances>>
            ELSE initializeNowPlaying([newTask("lcdWillAppear") EXCEPT
                                         !.action = a, !.position = orLeft(setting)])
  /\ UNCHANGED <<currentTrackInfo, keypadContexts, eventsReceived,
                 keyPresses, playPauseIssued, seekIssued, dialRotations>>
  /\ UNCHANGED <<callVars, renderer, callsReturned>>

\* await nowPlayingInstance.subscribe() resolves or rejects (the rejection
\* is logged); the handler goes on to its update
SubscribeSettles ==
  \E t \in 1..MaxTasks, subscribed \in BOOLEAN, ok \in BOOLEAN :
    /\ tasks[t].kind # "free" /\ tasks[t].pc = "subscribe"
    /\ instances' =
         IF instances[tasks[t].inst] = "constructed"
           THEN [instances EXCEPT ![tasks[t].inst] =
                   IF subscribed THEN "subscribed" ELSE "failed"]
           ELSE instances
    /\ IF tasks[t].kind = "keypadWillAppear"
         THEN Commit(t, keypadStart(tasks[t], tasks[t].action, currentTrackInfo, ok))
         ELSE ok /\ Commit(t, Out(lcdStart(tasks[t], tasks[t].action, tasks[t].position,
                                           currentTrackInfo), <<>>, {}))
    /\ UNCHANGED <<nowPlayingInstance, currentTrackInfo, keypadContexts, lcdContexts,
                   actionPosition, eventsReceived, keyPresses, playPauseIssued, seekIssued, dialRotations>>
    /\ UNCHANGED <<callVars, renderer, callsReturned>>

\* a slip: the clean-up looks at the keypad set alone
cleanUpKeypadsOnly(kind, kc, lc) ==
  IF kc = <<>> /\ nowPlayingInstance # 0
    THEN /\ HasFree
         /\ tasks' = [tasks EXCEPT ![freeSlot] =
                        [newTask(kind) EXCEPT !.pc = "unsubscribe",
                                              !.inst = nowPlayingInstance]]
    ELSE UNCHANGED tasks

\* the clean-up both onWillDisappear handlers share (lines 388-396,
\* 435-443): with no action left and an instance present, unsubscribe is
\* called and awaited
cleanUp(kind, kc, lc) ==
  IF kc = <<>> /\ lc = <<>> /\ nowPlayingInstance # 0
    THEN /\ HasFree
         /\ tasks' = [tasks EXCEPT ![freeSlot] =
                        [newTask(kind) EXCEPT !.pc = "unsubscribe",
                                              !.inst = nowPlayingInstance]]
    ELSE UNCHANGED tasks

\* keypad onWillDisappear (lines 383-397) up to its await; the hardware
\* stops showing the action
KeypadWillDisappear ==
  /\ \E a \in Range(keypadContexts) :
       /\ keypadContexts' = Without(keypadContexts, a)
       /\ shown' = [shown EXCEPT ![a] = ShowsNothing]
       /\ cleanUp("keypadWillDisappear", keypadContexts', lcdContexts)
  /\ UNCHANGED <<nowPlayingInstance, instances, currentTrackInfo, lcdContexts,
                 actionPosition, raisedFrom, eventsReceived, keyPresses,
                 playPauseIssued, seekIssued, dialRotations>>
  /\ UNCHANGED <<callVars, renderer, callsReturned>>

\* LCD onWillDisappear (lines 430-444) up to its await; the hardware stops
\* showing the action and the action object is dropped with its _position
LcdWillDisappear ==
  /\ \E a \in Range(lcdContexts) :
       /\ lcdContexts' = Without(lcdContexts, a)
       /\ shown' = [shown EXCEPT ![a] = ShowsNothing]
       /\ actionPosition' = [actionPosition EXCEPT ![a] = "unset"]
       /\ cleanUp("lcdWillDisappear", keypadContexts, lcdContexts')
  /\ UNCHANGED <<nowPlayingInstance, instances, currentTrackInfo, keypadContexts,
                 raisedFrom, eventsReceived, keyPresses,
                 playPauseIssued, seekIssued, dialRotations>>
  /\ UNCHANGED <<callVars, renderer, callsReturned>>

\* await nowPlayingInstance.unsubscribe() resolves, and the reference is
\* set to null, or rejects, and the error is logged
UnsubscribeSettles ==
  \E t \in 1..MaxTasks, unsubscribed \in BOOLEAN :
    /\ tasks[t].kind # "free" /\ tasks[t].pc = "unsubscribe"
    /\ IF unsubscribed
         THEN /\ nowPlayingInstance' = 0
              /\ instances' = [instances EXCEPT ![tasks[t].inst] = "unsubscribed"]
         ELSE UNCHANGED <<nowPlayingInstance, instances>>
    /\ tasks' = [tasks EXCEPT ![t] = FreeTask]
    /\ UNCHANGED <<currentTrackInfo, keypadContexts, lcdContexts, actionPosition,
                   shown, raisedFrom, eventsReceived, keyPresses, playPauseIssued,
                   seekIssued, dialRotations>>
    /\ UNCHANGED <<callVars, renderer, callsReturned>>

\* onKeyDown's body (lines 401-408): playPause is called on the instance
\* when there is one; its outcome is only logged
playPause == IF nowPlayingInstance # 0 THEN playPauseIssued + 1 ELSE playPauseIssued

\* onKeyDown (lines 399-409) for a key of a visible keypad action
KeyDown ==
  /\ keyPresses < MaxPresses
  /\ \E a \in Range(keypadContexts) : TRUE
  /\ keyPresses' = keyPresses + 1
  /\ playPauseIssued' = playPause
  /\ UNCHANGED <<nowPlayingInstance, instances, currentTrackInfo, keypadContexts,
                 lcdContexts, actionPosition, tasks, shown, raisedFrom, eventsReceived,
                 seekIssued, dialRotations>>
  /\ UNCHANGED <<callVars, renderer, callsReturned>>

\* a slip: the seek grows with the number of ticks
secondsPerTick(ticks) == 5 * ticks

\* const secondsToSeek = ticks > 0 ? 5 : -5
secondsToSeek(ticks) == IF ticks > 0 THEN 5 ELSE 0 - 5

\* onDialRotate's body (lines 459-469): one seek is called on the instance
\* when there is one; its outcome is only logged
seek(ticks) ==
  IF nowPlayingInstance # 0
    THEN Append(seekIssued, [ticks |-> ticks, seconds |-> secondsToSeek(ticks)])
    ELSE seekIssued

\* onDialRotate (lines 457-470) for the dial of a visible LCD action
DialRotate ==
  /\ dialRotations < MaxRotations
  /\ \E a \in Range(lcdContexts), ticks \in {0 - 2, 0 - 1, 1, 2} :
       seekIssued' = seek(ticks)
  /\ dialRotations' = dialRotations + 1
  /\ UNCHANGED <<nowPlayingInstance, instances, currentTrackInfo, keypadContexts,
                 lcdContexts, actionPosition, tasks, shown, raisedFrom, eventsReceived,
                 keyPresses, playPauseIssued>>
  /\ UNCHANGED <<callVars, renderer, callsReturned>>

\* onDidReceiveSettings (lines 446-455) up to its first await
DidReceiveSettings ==
  /\ HasFree
  /\ \E a \in Range(lcdContexts), setting \in {"unset", "left", "right"} :
       /\ actionPosition' = [actionPosition EXCEPT ![a] = orLeft(setting)]
       /\ Commit(freeSlot,
                 Out(lcdStart(newTask("didReceiveSettings"), a, orLeft(setting),
                              currentTrackInfo), <<>>, {}))
  /\ UNCHANGED <<nowPlayingInstance, instances, currentTrackInfo, keypadContexts,
                 lcdContexts, eventsReceived, keyPresses, playPauseIssued, seekIssued, dialRotations>>
  /\ UNCHANGED <<callVars, renderer, callsReturned>>

\* the raster call a task's renderer call awaits resolves or rejects; a
\* renderer call that returns or raises hands control back to updateLCDAction
RasterSettles ==
  \E t \in 1..MaxTasks :
    /\ tasks[t].kind # "free" /\ tasks[t].pc \in {"blank", "render", "fallback"}
    /\ \E f \in frameSettles(tasks, t), ok \in BOOLEAN :
         IF f.pc # "done"
           THEN /\ ok
                /\ tasks' = [tasks EXCEPT ![t].frame = f]
                /\ UNCHANGED <<shown, raisedFrom>>
           ELSE Commit(t, lcdAfterCall([tasks[t] EXCEPT !.frame = f], Now, ok))
    /\ UNCHANGED <<nowPlayingInstance, instances, currentTrackInfo, keypadContexts,
                   lcdContexts, actionPosition, eventsReceived, keyPresses,
                   playPauseIssued, seekIssued, dialRotations>>
    /\ UNCHANGED <<callVars, renderer, callsReturned>>

\* the renderer call a task awaits returns or raises, taken as one step
\* from the call to its end
RendererCallSettles ==
  \E t \in 1..MaxTasks :
    /\ tasks[t].kind # "free" /\ tasks[t].pc \in {"blank", "render", "fallback"}
    /\ \E f \in callSettles(tasks, t), ok \in BOOLEAN :
         Commit(t, lcdAfterCall([tasks[t] EXCEPT !.frame = f], Now, ok))
    /\ UNCHANGED <<nowPlayingInstance, instances, currentTrackInfo, keypadContexts,
                   lcdContexts, actionPosition, eventsReceived, keyPresses,
                   playPauseIssued, seekIssued, dialRotations>>
    /\ UNCHANGED <<callVars, renderer, callsReturned>>

\* await action.setFeedback(..) resolves or rejects
FeedbackSettles ==
  \E t \in 1..MaxTasks, ok \in BOOLEAN :
    /\ tasks[t].kind # "free"
    /\ tasks[t].pc \in {"blankSend", "renderSend", "fallbackSend"}
    /\ Commit(t, lcdAfterSend(tasks[t], Now, ok))
    /\ UNCHANGED <<nowPlayingInstance, instances, currentTrackInfo, keypadContexts,
                   lcdContexts, actionPosition, eventsReceived, keyPresses,
                   playPauseIssued, seekIssued, dialRotations>>
    /\ UNCHANGED <<callVars, renderer, callsReturned>>

\* await action.setTitle(..) or action.setImage(..) resolves or rejects
KeypadSendSettles ==
  \E t \in 1..MaxTasks, ok \in BOOLEAN :
    /\ tasks[t].kind # "free"
    /\ tasks[t].pc \in {"idleTitle", "idleImage", "title", "image", "imageFallback",
                        "defaultImage"}
    /\ Commit(t, keypadAfterSend(tasks[t], Now, ok))
    /\ UNCHANGED <<nowPlayingInstance, instances, currentTrackInfo, keypadContexts,
                   lcdContexts, actionPosition, eventsReceived, keyPresses,
                   playPauseIssued, seekIssued, dialRotations>>
    /\ UNCHANGED <<callVars, renderer, callsReturned>>

\* the steps that bring snapshots to the visible actions, every renderer
\* call taken as one step
UpdateNext ==
  \/ MediaEventArrives
  \/ KeypadWillAppear \/ LcdWillAppear \/ SubscribeSettles
  \/ DidReceiveSettings
  \/ RendererCallSettles \/ FeedbackSettles \/ KeypadSendSettles

\* actions appear and receive snapshots; none disappears
UpdateSpec == Init /\ [][UpdateNext]_vars

\* the steps that create and drop the subscription, and the commands
LifecycleNext ==
  \/ KeypadWillAppear \/ LcdWillAppear \/ SubscribeSettles
  \/ KeypadWillDisappear \/ LcdWillDisappear \/ UnsubscribeSettles
  \/ KeyDown \/ DialRotate
  \/ RendererCallSettles \/ FeedbackSettles \/ KeypadSendSettles

\* actions appear and disappear and are operated; the media session is silent
LifecycleSpec == Init /\ [][LifecycleNext]_vars

\* the LCD actions alone, every renderer call split at its awaits
RenderRaceNext ==
  \/ MediaEventArrives
  \/ LcdWillAppear \/ SubscribeSettles
  \/ DidReceiveSettings
  \/ RasterSettles \/ FeedbackSettles

\* renderer calls of LCD updates interleave with each other and with events
RenderRaceSpec == Init /\ [][RenderRaceNext]_vars

----------------------------------------------------------------------------
(* Properties of the LCD update (UpdateSpec) *)

\* the tasks that are inside updateLCDAction
InLcdUpdate(t) ==
  /\ tasks[t].kind # "free"
  /\ tasks[t].pc \in {"blank", "blankSend", "render", "renderSend", "fallback",
                      "fallbackSend"}

\* the snapshot the update found was absent or not playing
FoundIdle(t) ==
  tasks[t].seen.k = "null" \/ tasks[t].seen.isPlaying = FALSE

\* C12: whenever updateLCDAction runs with no current snapshot or with a
\* snapshot whose isPlaying is false, it calls createBlank for the action's
\* position and sends the idle image, whatever track fields the stale
\* snapshot holds, and never calls render; render is called only for a
\* snapshot that exists and is playing.
C12_IdleShowsBlank ==
  \A t \in 1..MaxTasks :
    InLcdUpdate(t) =>
      /\ FoundIdle(t) =>
           /\ tasks[t].pc \in {"blank", "blankSend"}
           /\ tasks[t].frame.op = "createBlank"
           /\ tasks[t].frame.position = tasks[t].position
           /\ tasks[t].pc = "blankSend" =>
                tasks[t].frame.result.image
                  \in {[kind |-> "crop", left |-> cropX(tasks[t].position), top |-> 0,
                        width |-> 200, height |-> 100,
                        canvas |-> canvasOf(<<darkArtLayer, blankTextLayer>>)],
                       blackImage}
      /\ tasks[t].frame.op \in {"render", "createFallback"} =>
           /\ tasks[t].seen.k = "object"
           /\ tasks[t].seen.isPlaying = TRUE
      /\ tasks[t].frame.op = "render" => tasks[t].frame.trackInfo = tasks[t].seen

\* C12's case: the idle image is sent while the snapshot is a paused one
\* that still holds a track name and artwork
C12_Witness ==
  \E t \in 1..MaxTasks :
    /\ InLcdUpdate(t) /\ tasks[t].pc = "blankSend"
    /\ tasks[t].seen.k = "object" /\ tasks[t].seen.isPlaying = FALSE
    /\ Truthy(tasks[t].seen.trackName) /\ Truthy(tasks[t].seen.thumbnail)
    /\ tasks[t].frame.result.image.kind = "crop"

\* C13: in updateLCDAction, when render raises for a playing snapshot, or
\* the setFeedback of the rendered image rejects, the handler calls
\* createFallback for the same position and sends its image; and whatever
\* fails (render, createFallback, createBlank or a setFeedback), no
\* exception leaves updateLCDAction.
C13_FallbackNoEscape ==
  [][/\ "updateLCDAction" \notin raisedFrom'
     /\ \A t \in 1..MaxTasks :
          (InLcdUpdate(t) /\ tasks'[t] # tasks[t]) =>
            /\ tasks[t].pc = "render" =>
                 \/ /\ tasks'[t].pc = "renderSend"
                    /\ tasks'[t].frame.result.k = "returned"
                 \/ /\ tasks'[t].pc = "fallback"
                    /\ tasks'[t].frame.op = "createFallback"
                    /\ tasks'[t].frame.position = tasks[t].position
                    /\ tasks'[t].action = tasks[t].action
            /\ (tasks[t].pc = "renderSend" /\ ~tasks[t].ok) =>
                 /\ tasks'[t].pc = "fallback"
                 /\ tasks'[t].frame.op = "createFallback"
                 /\ tasks'[t].frame.position = tasks[t].position
            /\ (tasks[t].pc = "fallback" /\ tasks'[t].kind # "free"
                  /\ tasks'[t].pc = "fallbackSend") =>
                 tasks'[t].frame.result
                   = [k |-> "returned", scheme |-> "data:image/png;base64,",
                      image |-> [kind |-> "fallback", width |-> 200, height |-> 100,
                                 message |-> IF tasks[t].position = "left"
                                               THEN "note glyph" ELSE "No Track",
                                 fontSize |-> IF tasks[t].position = "left"
                                                THEN 40 ELSE 14]]]_vars

\* C13's case: the fallback image has been sent for a playing snapshot
C13_Witness ==
  \E t \in 1..MaxTasks :
    /\ InLcdUpdate(t) /\ tasks[t].pc = "fallbackSend"
    /\ tasks[t].seen.k = "object" /\ tasks[t].seen.isPlaying = TRUE
    /\ tasks[t].frame.result.k = "returned"
    /\ tasks[t].position = "right"

\* C19: an update started for an older snapshot never delivers to an action
\* after an update for a newer snapshot has delivered to it, so that once
\* all passes have finished every visible action shows the latest snapshot.
C19_NewestStays ==
  [][\A a \in Visible : a \in Range(keypadContexts') \cup Range(lcdContexts') =>
       shown'[a] >= shown[a]]_vars

----------------------------------------------------------------------------
(* Properties of interleaved renderer calls (RenderRaceSpec) *)

\* the tasks whose render call is in flight or has just returned
InRender(t) ==
  /\ tasks[t].kind # "free"
  /\ tasks[t].pc \in {"render", "renderSend"}
  /\ tasks[t].frame.op = "render"

\* C15: events that arrive while a render call is suspended replace the
\* plugin's snapshot but not the call's: the artwork, track name, artist,
\* duration and position of every layer the call builds come from the one
\* snapshot passed at entry, so a returned image never mixes two snapshots.
C15_OneSnapshot ==
  \A t \in 1..MaxTasks :
    InRender(t) =>
      LET entry == tasks[t].seen
          f == tasks[t].frame
          built == IF f.fullCanvas = NoSvg THEN f.composite ELSE f.fullCanvas.layers
      IN  /\ \A i \in 1..Len(built) :
                /\ built[i].kind = "artwork" => Truthy(entry.thumbnail)
                /\ built[i].kind = "text" =>
                     /\ Unescape(built[i].input.title.text)
                          = truncate(titleOf(entry), 28)
                     /\ Unescape(built[i].input.artist.text)
                          = truncate(artistOf(entry), 32)
                /\ built[i].kind = "bar" =>
                     built[i].input
                       = createProgressBar(entry.duration, entry.position, 276, 108, 75)
          /\ (f.artStatus \in {"absent", "failed"} /\ Len(built) >= 1) =>
               built[1].kind = "text"
          /\ f.artStatus = "absent" => ~Truthy(entry.thumbnail)

\* C15's case: a render call returned its image after a newer event had
\* replaced the snapshot it was called with, artwork included
C15_Witness ==
  \E t \in 1..MaxTasks :
    /\ InRender(t) /\ tasks[t].pc = "renderSend"
    /\ tasks[t].seen.seq < currentTrackInfo.seq
    /\ tasks[t].seen.trackName # currentTrackInfo.trackName
    /\ tasks[t].frame.artStatus = "decoded"
    /\ tasks[t].frame.result.image.kind = "crop"

\* the layers a render call on its own builds for its arguments
AloneLayers(f) ==
  (IF f.artStatus = "decoded"
     THEN <<[kind |-> "artwork", width |-> 100, height |-> 100, left |-> 0, top |-> 0]>>
     ELSE <<>>)
  \o <<textLayer(buildTextSvg(f.trackInfo, 284)),
       barLayer(createProgressBar(f.trackInfo.duration, f.trackInfo.position,
                                  276, 108, 75))>>

\* C16: render calls on the one renderer that interleave at their awaits
\* each build and composite their own layer list and canvas: a call's
\* canvas holds its own layers and no other call's, and the call returns
\* what it returns when run alone.
C16_OwnCanvas ==
  \A t \in 1..MaxTasks :
    InRender(t) =>
      LET f == tasks[t].frame IN
      /\ Len(f.composite) <= 3
      /\ f.fullCanvas # NoSvg =>
           /\ f.fullCanvas.layers = f.composite
           /\ f.fullCanvas.layers = AloneLayers(f)
      /\ (f.result.k = "returned" /\ f.error = "none") =>
           f.result = dataUrlOf([kind |-> "crop",
                                 left |-> (IF f.position = "left" THEN 0 ELSE 200),
                                 top |-> 0, width |-> 200, height |-> 100,
                                 canvas |-> [width |-> 400, height |-> 100,
                                             background |-> "black",
                                             layers |-> AloneLayers(f)]])

\* C16's case: two render calls for the same snapshot, one for each half,
\* are in flight together and one of them has returned its image
C16_Witness ==
  \E t, u \in 1..MaxTasks :
    /\ InRender(t) /\ InRender(u)
    /\ tasks[t].frame.trackInfo = tasks[u].frame.trackInfo
    /\ tasks[t].frame.position = "left" /\ tasks[u].frame.position = "right"
    /\ tasks[t].pc = "renderSend" /\ tasks[t].frame.result.image.kind = "crop"
    /\ tasks[u].pc = "render" /\ tasks[u].frame.composite # <<>>

----------------------------------------------------------------------------
(* Properties of the commands (LifecycleSpec) *)

\* C20: every key press on a visible keypad action issues exactly one
\* play/pause command to the media session, in every state the appear and
\* disappear handlers of keypad and LCD actions can reach.
C20_EveryPressIssues ==
  [][keyPresses' = keyPresses + 1 => playPauseIssued' = playPauseIssued + 1]_vars

\* no appear or disappear handler and no update pass is suspended at an await
NoHandlerPending == \A t \in 1..MaxTasks : tasks[t] = FreeTask

\* C21: under any interleaving of the onWillAppear and onWillDisappear
\* handlers, whenever no handler is pending and at least one keypad or LCD
\* action is visible, a subscription instance exists (nowPlayingInstance is
\* not null).
C21_VisibleHasInstance ==
  (NoHandlerPending /\ Visible # {}) => nowPlayingInstance # 0

\* slot t is taken in this step by a handler that has called unsubscribe
IssuesUnsubscribe(t) ==
  /\ tasks'[t].kind # "free" /\ tasks'[t].pc = "unsubscribe"
  /\ tasks[t] # tasks'[t]

\* C22: unsubscribe is issued only by a disappear handler that finds the
\* keypad set and the LCD set both empty while an instance exists, never
\* while an action of either kind is registered at that moment; when the
\* unsubscribe has succeeded the reference is cleared, and an action that
\* appears while the reference is clear constructs a fresh instance.
C22_UnsubscribeWhenEmpty ==
  [][/\ \A t \in 1..MaxTasks :
          /\ IssuesUnsubscribe(t) =>
               /\ tasks'[t].kind \in {"keypadWillDisappear", "lcdWillDisappear"}
               /\ Visible \ Visible' # {}
               /\ keypadContexts' = <<>> /\ lcdContexts' = <<>>
               /\ nowPlayingInstance # 0
               /\ tasks'[t].inst = nowPlayingInstance
          /\ (tasks[t].kind # "free" /\ tasks[t].pc = "unsubscribe"
                /\ instances[tasks[t].inst] # "unsubscribed"
                /\ instances'[tasks[t].inst] = "unsubscribed") =>
               nowPlayingInstance' = 0
     /\ (nowPlayingInstance = 0 /\ Visible' \ Visible # {}) =>
          /\ nowPlayingInstance' # 0
          /\ instances[nowPlayingInstance'] = "none"
          /\ instances'[nowPlayingInstance'] = "constructed"]_vars

\* C22's case: after the first instance was unsubscribed and the reference
\* cleared, an action appeared and a second instance was constructed
C22_Witness ==
  /\ instances[1] = "unsubscribed"
  /\ nowPlayingInstance = 2
  /\ instances[2] \in {"constructed", "subscribed"}
  /\ Visible # {}

\* the instances that were constructed and have not been unsubscribed: they
\* hold, or are about to hold, a subscription to the media session
Live == {i \in 1..MaxInstances : instances[i] \in {"constructed", "subscribed"}}

\* C23: under any interleaving of the appear and disappear handlers at most
\* one media-session instance is live at a time: an instance is constructed
\* only when the reference is null, and the reference becomes null only
\* after the unsubscribe of the instance it held has completed.
C23_OneLive == Cardinality(Live) <= 1

\* C24: a dial rotation issues at most one seek: +5 seconds when ticks > 0
\* and -5 seconds when ticks < 0, whatever the number of ticks; it issues
\* none when there is no instance; the seek goes to the media session and
\* starts no renderer call and no update; nothing else issues a seek.
C24_OneSeekOfFive ==
  [][/\ dialRotations' = dialRotations =>
          seekIssued' = seekIssued
     /\ dialRotations' # dialRotations =>
          /\ dialRotations' = dialRotations + 1
          /\ UNCHANGED <<tasks, shown, callVars, renderer, callsReturned>>
          /\ IF nowPlayingInstance = 0
               THEN seekIssued' = seekIssued
               ELSE /\ Len(seekIssued') = Len(seekIssued) + 1
                    /\ SubSeq(seekIssued', 1, Len(seekIssued)) = seekIssued
                    /\ LET last == seekIssued'[Len(seekIssued')]
                       IN  /\ last.ticks > 0 => last.seconds = 5
                           /\ last.ticks < 0 => last.seconds = 0 - 5
                           /\ last.seconds \in {5, 0 - 5}]_vars

\* C24's case: a rotation of two ticks to the left has sought by -5 seconds
C24_Witness ==
  /\ dialRotations = 1
  /\ seekIssued = <<[ticks |-> 0 - 2, seconds |-> 0 - 5]>>

----------------------------------------------------------------------------
(* Properties of the idle layout (Spec) *)

\* a composited layer lies within the 400x100 canvas
LayerInside(l) ==
  /\ l.left >= 0 /\ l.top >= 0
  /\ l.left + l.width <= 400 /\ l.top + l.height <= 100

\* the progress-bar track of the playing layout, in canvas coordinates
PlayingTrack ==
  [x |-> 108, y |-> 75, width |-> 276, height |-> 5, rx |-> 1, fill |-> "#404040"]

\* C25: the idle composition uses the playing-state layout: createBlank's
\* track has the x (108), y (75), width (276), height (5) and corner radius
\* (1) of the track render gets from createProgressBar, its text baselines
\* (y 27 and 55) start at the canvas x (108) of render's text; in both paths
\* the track ends at 384 and every composited layer lies within the canvas.
C25_IdleMatchesPlaying ==
  /\ PlayingTrack.x + PlayingTrack.width = 384
  /\ op = "render" =>
       \A i \in 1..Len(composite) :
         LET l == composite[i] IN
         /\ LayerInside(l)
         /\ l.kind = "text" =>
              /\ l.left + l.input.title.x = 108 /\ l.top = 0 /\ l.input.title.y = 27
              /\ l.left + l.input.artist.x = 108 /\ l.input.artist.y = 55
         /\ l.kind = "bar" =>
              /\ l.left = 0 /\ l.top = 0
              /\ l.input.shapes[1] = PlayingTrack
  /\ op = "createBlank" =>
       \A i \in 1..Len(composite) :
         LET l == composite[i] IN
         /\ LayerInside(l)
         /\ l.kind = "idle text" =>
              /\ l.left = 0 /\ l.top = 0
              /\ l.textAt = 108 /\ l.titleY = 27 /\ l.artistY = 55
              /\ l.track = PlayingTrack

\* C25's case: createBlank returned the crop of a canvas that holds the
\* idle text and track
C25_Witness ==
  /\ op = "createBlank" /\ pc = "done"
  /\ result.k = "returned" /\ result.image.kind = "crop"
  /\ \E i \in 1..Len(result.image.canvas.layers) :
       result.image.canvas.layers[i].kind = "idle text"

----------------------------------------------------------------------------
(* Properties of the update pass (UpdateSpec) *)

\* C26: within one updateAllActions pass a failure while updating one action
\* (a rejected setTitle, setImage or setFeedback, a render fault) does not
\* stop the pass: when the pass ends, every keypad and LCD action that was
\* registered from its beginning to its end has had its update function
\* called, and no exception leaves updateAllActions.
C26_PassGoesOn ==
  [][/\ "updateAllActions" \notin raisedFrom'
     /\ \A t \in 1..MaxTasks :
          (tasks[t].kind = "pass" /\ tasks'[t] = FreeTask) =>
            \A a \in tasks[t].registered \cap Visible' :
              a \in tasks[t].visited \cup {tasks[t].action}]_vars

\* C26's case: in one pass the keypad update threw (the setImage of the
\* artwork and the setImage of the default icon both rejected), and the pass
\* went on to the LCD action and sent it the rendered image
C26_Witness ==
  \E t \in 1..MaxTasks :
    /\ tasks[t].kind = "pass" /\ tasks[t].failed
    /\ tasks[t].registered = {"k1", "l1"}
    /\ tasks[t].visited = {"k1"}
    /\ tasks[t].action = "l1" /\ tasks[t].pc = "renderSend"

----------------------------------------------------------------------------
(* Properties of the LCD position (UpdateSpec) *)

\* in this step the task of slot t calls updateLCDAction
EntersLcdUpdate(t) ==
  /\ tasks'[t].kind # "free" /\ tasks'[t].pc \in {"blank", "render"}
  /\ tasks[t].kind = "free" \/ tasks[t].pc \notin {"blank", "render"}

\* C27: each LCD action is rendered with the position most recently
\* received for it: every update started after an onWillAppear or an
\* onDidReceiveSettings passes the position stored by the latest of them
\* ('left' when the settings carry none) to render or createBlank.
C27_LatestPosition ==
  [][\A t \in 1..MaxTasks :
       EntersLcdUpdate(t) =>
         /\ tasks'[t].position = actionPosition'[tasks'[t].action]
         /\ tasks'[t].frame.position = tasks'[t].position]_vars

====
